---- MODULE Spec2Model ----
(***************************************************************************)
(* A model of sqlmesh's project loader (sqlmesh/core/loader.py): the file  *)
(* tracking behind reload_needed(), the model cache and its invalidation   *)
(* key, the process-wide macro registry, and the dependency graph with     *)
(* schema propagation; of the scheduler client's requests and results, as  *)
(* the tests of tests/schedulers/airflow/test_client.py pin them down; and *)
(* of init_example_project (sqlmesh/cli/example_project.py).               *)
(*                                                                         *)
(* The loader's working state is threaded through the phases of            *)
(* Loader.load as a record L:                                              *)
(*   pm      self._path_mtimes      (function on the tracked paths)        *)
(*   mmm     self._macros_max_mtime ({} is None, {t} is t)                 *)
(*   cm      self._config_mtimes    (function on a subset of CfgScopes)    *)
(*   reg     the process-wide macro registry (macro._registry)             *)
(*   cache   the on-disk model cache (entries [name, id, model])           *)
(*   macros, jinja   what _load_scripts returned                           *)
(*   models  the UniqueKeyDict of models, in insertion order               *)
(*   dag     self._dag (node -> set of dependencies)                       *)
(*   schema  the MappingSchema of update_model_schemas (table -> columns)  *)
(*   err     "" or the kind of the exception that aborted the load         *)
(*   errpath the file path the exception's message names ("" when none)    *)
(*   errmsg  str(e) of a SchemaError, as a sequence of tokens              *)
(*   log     the records logged by update_model_schemas                    *)
(*   depth   the number of parts of the names of the tables in schema      *)
(*           (0 while it holds none)                                       *)
(*   calls   the calls made on models, in order                            *)
(*   inv     the invocations of the _load closure, in order, each with the *)
(*           path, the entry id and whether it returned a model            *)
(*   hits    the paths served from the cache                               *)
(*   local   the dictionary the running _load_* method is filling          *)
(*   ids     the cache entry id computed for each model file               *)
(***************************************************************************)
EXTENDS Integers, Sequences, FiniteSets, TLC

VARIABLES
    exists,            \* the paths present in the file system
    mtime,             \* st_mtime of each path
    content,           \* what each file holds (see Content)
    fingerprint,       \* context.config.fingerprint
    default_catalog,   \* context.default_catalog ("" is None)
    path_mtimes,       \* Loader._path_mtimes
    macros_max_mtime,  \* SqlMeshLoader._macros_max_mtime
    config_mtimes,     \* Loader._config_mtimes
    registry,          \* the process-wide macro registry
    cache,             \* the model cache directory
    result,            \* the outcome of the latest call of Loader.load
    hist,              \* observations of the latest load and of the run so far
    budget,            \* the file-system changes and loads still allowed
    threads,           \* the loads running _load_scripts in threads of their own
    target,            \* a path handed to _cache_entry_name, and the name returned
    session,           \* the scheduler client's HTTP session and its pending call
    context,           \* the gateway selection of a context, and what _variables made of it
    cli                \* the calls of init_example_project and their outcome

fsvars == <<exists, mtime, content, fingerprint, default_catalog>>
loadervars == <<path_mtimes, macros_max_mtime, config_mtimes, registry, cache>>
vars == <<exists, mtime, content, fingerprint, default_catalog, path_mtimes,
          macros_max_mtime, config_mtimes, registry, cache, result, hist, budget,
          threads, target, session, context,
         cli>>

(***************************************************************************)
(* Bounds.                                                                 *)
(***************************************************************************)
MaxTime == 3
MaxChanges == 2
MaxLoads == 2

Times == 1..MaxTime

(***************************************************************************)
(* Generic helpers.                                                        *)
(***************************************************************************)
MaxOf(S) == CHOOSE m \in S : \A n \in S : n <= m

RECURSIVE FoldSeq(_, _, _)
FoldSeq(Op(_, _), acc, s) ==
    IF s = <<>> THEN acc ELSE FoldSeq(Op, Op(acc, Head(s)), Tail(s))

Range(s) == {s[i] : i \in DOMAIN s}

\* d[k] = v on a function whose domain may not hold k yet (a dict assignment).
Put(d, k, v) == [x \in DOMAIN d \cup {k} |-> IF x = k THEN v ELSE d[x]]

EmptyMap == [x \in {} |-> 0]

(***************************************************************************)
(* The project tree.  A path is named by a string; Parts gives the         *)
(* components of a model file's path relative to the project root, each    *)
(* a sequence of tokens (a token stands for a run of characters).          *)
(***************************************************************************)
ConfigFiles == <<"config.py">>
GlobalConfigFiles == <<"~/.sqlmesh/config.yaml">>
MacroPyFiles == <<"macros/m.py">>
MacroSqlFiles == <<"macros/add.sql">>
OtherMacroPyFiles == <<"other/macros/n.py">>
OtherMacroSqlFiles == <<"other/macros/mul.sql">>
ModelSqlFiles == <<"models/a.sql", "models/b.sql", "models/c.sql">>
ExternalFiles == <<"external_models.yaml">>
ModelPyFiles == <<"models/p.py">>
MetricFiles == <<"metrics/k.sql", "metrics/j.sql">>
AuditFiles == <<"audits/u.sql", "audits/v.sql">>
SeedFiles == <<"seeds/s.csv">>

Files == Range(ConfigFiles) \cup Range(GlobalConfigFiles) \cup Range(MacroPyFiles)
         \cup Range(MacroSqlFiles) \cup Range(ModelSqlFiles) \cup Range(ExternalFiles)
         \cup Range(ModelPyFiles) \cup Range(MetricFiles) \cup Range(AuditFiles)
         \cup Range(SeedFiles) \cup Range(OtherMacroPyFiles) \cup Range(OtherMacroSqlFiles)

\* The names of the paths whose components the variable target holds.
TargetPath == "target"
OtherPath == "other"

Parts(f) ==
    CASE f = TargetPath -> target.parts
      [] f = OtherPath -> target.other
      [] f = "models/a.sql" -> << <<"models">>, <<"a", ".sql">> >>
      [] f = "models/b.sql" -> << <<"models">>, <<"b", ".sql">> >>
      [] f = "models/c.sql" -> << <<"models">>, <<"c", ".sql">> >>
      [] OTHER -> << <<f>> >>

\* model.seed_path of the seed model defined by a file.
SeedPath(f) == "seeds/s.csv"

\* The keys of Loader._config_mtimes: the context path and c.SQLMESH_PATH.
ContextPath == "proj"
SQLMESH_PATH == "global"
CfgScopes == {ContextPath, SQLMESH_PATH}

StandardMacros == {"each"}
NameOrder == <<"A", "B", "C", "P", "X">>

(***************************************************************************)
(* What a file holds, as far as the loader can tell:                       *)
(*   ok     the file parses (or imports) without an error                  *)
(*   empty  the file has zero bytes                                        *)
(*   fqn, deps, seed   a SQL model: its name, depends_on, and whether it   *)
(*          is a seed model                                                *)
(*   names  the definitions of a file holding several: the macros of a     *)
(*          macro file, the rows of an external-models manifest, the       *)
(*          models of a Python file, the audits or metrics of a file       *)
(*   begin  a SQL macro file: its first token is MACRO_BEGIN               *)
(*   cols   a model: columns_to_types is not None once its schema is set   *)
(*   columns   a model: the columns its query or its definition lists      *)
(*   star   a SQL model whose query is SELECT * FROM one upstream table:   *)
(*          the upstream's name ("" for a query that lists its columns)    *)
(*   nesting   a model: the number of parts of its name (db.tbl has 2)     *)
(*   schema_error   a model: the message of the SchemaError that setting   *)
(*          its schema raises (<<>> for a model whose schema can be set)   *)
(*   valid  a model: validate_definition accepts its definition            *)
(***************************************************************************)
Plain == [ok |-> TRUE, empty |-> FALSE, fqn |-> "", deps |-> {}, seed |-> FALSE,
          names |-> <<>>, begin |-> FALSE, cols |-> TRUE, columns |-> {"id"},
          star |-> "", nesting |-> 2, schema_error |-> <<>>, valid |-> TRUE]

DefaultContent(f) ==
    CASE f = "macros/m.py" -> [Plain EXCEPT !.names = <<"pm">>]
      [] f = "macros/add.sql" -> [Plain EXCEPT !.names = <<"ADD">>, !.begin = TRUE]
      [] f = "other/macros/n.py" -> [Plain EXCEPT !.names = <<"pn">>]
      [] f = "other/macros/mul.sql" -> [Plain EXCEPT !.names = <<"MUL">>, !.begin = TRUE]
      [] f = "models/a.sql" -> [Plain EXCEPT !.fqn = "A", !.seed = TRUE]
      [] f = "models/b.sql" -> [Plain EXCEPT !.fqn = "B", !.deps = {"A", "X"}]
      [] f = "models/c.sql" -> [Plain EXCEPT !.empty = TRUE, !.ok = FALSE]
      [] f = "external_models.yaml" -> [Plain EXCEPT !.names = <<"X">>]
      [] f = "metrics/k.sql" -> [Plain EXCEPT !.names = <<"k1">>]
      [] f = "metrics/j.sql" -> [Plain EXCEPT !.names = <<"k2">>]
      [] f = "audits/u.sql" -> [Plain EXCEPT !.names = <<"u1">>]
      [] f = "audits/v.sql" -> [Plain EXCEPT !.names = <<"u2">>]
      [] OTHER -> Plain

\* path.glob(...): the files of a directory listing that exist.
glob(listing) == SelectSeq(listing, LAMBDA f : f \in exists)

(***************************************************************************)
(* Loader._track_file: record the path's st_mtime; stat() of a missing     *)
(* path raises.                                                            *)
(***************************************************************************)
\* A variant that records the time of the call instead of the file's st_mtime.
_track_file_now(L, path) ==
    IF path \notin exists THEN [L EXCEPT !.err = "FileNotFoundError"]
    ELSE [L EXCEPT !.pm = Put(L.pm, path, MaxTime)]

_track_file(L, path) ==
    IF path \notin exists THEN [L EXCEPT !.err = "FileNotFoundError"]
    ELSE [L EXCEPT !.pm = Put(L.pm, path, mtime[path])]

(***************************************************************************)
(* Loader.reload_needed on the loader's tracked paths.                     *)
(***************************************************************************)
reload_needed_of(pm) ==
    \E path \in DOMAIN pm : path \notin exists \/ mtime[path] > pm[path]

reload_needed == reload_needed_of(path_mtimes)

(***************************************************************************)
(* UniqueKeyDict: an insertion-ordered mapping, here a sequence of records *)
(* with distinct keys (field fqn).  d[k] = v raises on a key that is       *)
(* present; d.update(other) is dict.update, which overwrites in place.     *)
(* Each _load_* method fills its own dictionary: the field local of L.     *)
(***************************************************************************)
HasKey(d, k) == \E i \in DOMAIN d : d[i].fqn = k

Get(d, k) == d[CHOOSE i \in DOMAIN d : d[i].fqn = k]

\* UniqueKeyDict.__setitem__ on the dictionary being filled.
setitem(L, m) ==
    IF L.err # "" THEN L
    ELSE IF HasKey(L.local, m.fqn) THEN [L EXCEPT !.err = "DuplicateKey"]
    ELSE [L EXCEPT !.local = Append(L.local, m)]

\* dict.update(d, other): a present key keeps its place and takes the new value.
update_one(d, m) ==
    IF HasKey(d, m.fqn)
    THEN [i \in DOMAIN d |-> IF d[i].fqn = m.fqn THEN m ELSE d[i]]
    ELSE Append(d, m)

update(d, other) == FoldSeq(update_one, d, other)

(***************************************************************************)
(* Loader.load, lines 112-128: reset the tracked paths and the graph, then *)
(* track the config files of the context path and of SQLMESH_PATH.         *)
(***************************************************************************)
\* A variant that forgets self._path_mtimes.clear().
load_reset_keep(L) == [L EXCEPT !.dag = EmptyMap]

\* A variant that forgets self._dag = DAG().
load_reset_keep_dag(L) == [L EXCEPT !.pm = EmptyMap]

load_reset(L) == [L EXCEPT !.pm = EmptyMap, !.dag = EmptyMap]

track_config(L, scope, listing) ==
    LET L1 == FoldSeq(_track_file, L, glob(listing))
    IN  IF glob(listing) = <<>> THEN L1
        ELSE [L1 EXCEPT !.cm = Put(L1.cm, scope,
                                   MaxOf({L1.pm[f] : f \in Range(glob(listing))}))]

track_configs(L) ==
    track_config(track_config([L EXCEPT !.cm = EmptyMap], ContextPath, ConfigFiles),
                 SQLMESH_PATH, GlobalConfigFiles)

(***************************************************************************)
(* SqlMeshLoader._load_scripts.  The working record S holds the loader     *)
(* record L, the copy of the registry taken at the start (std), the local  *)
(* macros_max_mtime (mm) and the jinja registry.                           *)
(***************************************************************************)
normalize_macro_name(name) ==
    CASE name = "ADD" -> "add"
      [] name = "MUL" -> "mul"
      [] OTHER -> name

\* macros_max_mtime = max(macros_max_mtime, m) if macros_max_mtime else m
bump_max(mm, m) == {MaxOf(mm \cup {m})}

\* One Python macro file: importing it runs its @macro decorators, which
\* register into the process-wide registry.
py_macro_reg(reg, path) == reg \cup Range(content[path].names)

scripts_py(S, path) ==
    IF S.L.err # "" THEN S
    ELSE IF ~content[path].ok THEN [S EXCEPT !.L.err = "ImportError"]
    ELSE LET L1 == _track_file([S.L EXCEPT !.reg = py_macro_reg(@, path)], path)
         IN  [S EXCEPT !.L = L1, !.mm = bump_max(S.mm, L1.pm[path])]

\* The macros one SQL macro file defines: each is stored in the copy under its
\* own name and registered in the process-wide registry under its normalized name.
sql_macro_std(std, path) == std \cup Range(content[path].names)

sql_macro_reg(reg, path) ==
    reg \cup {normalize_macro_name(n) : n \in Range(content[path].names)}

scripts_sql(S, path) ==
    IF S.L.err # "" THEN S
    ELSE LET L1 == _track_file(S.L, path)
             S1 == [S EXCEPT !.L = L1, !.mm = bump_max(S.mm, L1.pm[path])]
         IN  IF ~content[path].ok THEN [S1 EXCEPT !.L.err = "TokenError"]
             ELSE IF content[path].empty THEN [S1 EXCEPT !.L.err = "IndexError"]
             ELSE IF content[path].begin
             THEN [S1 EXCEPT !.std = sql_macro_std(S1.std, path),
                             !.L.reg = sql_macro_reg(S1.L.reg, path)]
             ELSE [S1 EXCEPT !.jinja = @ \cup Range(content[path].names)]

_load_scripts(L) ==
    LET S0 == [L |-> L, std |-> L.reg, mm |-> {}, jinja |-> {}]
        S1 == FoldSeq(scripts_py, S0, glob(MacroPyFiles))
        S2 == FoldSeq(scripts_sql, S1, glob(MacroSqlFiles))
    IN  IF S2.L.err # "" THEN S2.L
        ELSE [S2.L EXCEPT !.mmm = S2.mm, !.macros = S2.L.reg, !.jinja = S2.jinja,
                          !.reg = S2.std]

(***************************************************************************)
(* SqlMeshLoader._Cache.  A cache entry name is a string, here the         *)
(* sequence of its tokens; an entry id is the "__"-joined triple of the    *)
(* newest modification time, the config fingerprint and the catalog.       *)
(***************************************************************************)
Extensions == {".sql", ".py"}

RECURSIVE join(_, _)
join(sep, parts) ==
    IF parts = <<>> THEN <<>>
    ELSE IF Len(parts) = 1 THEN parts[1]
    ELSE parts[1] \o <<sep>> \o join(sep, Tail(parts))

\* Path.suffix: the extension of the final component.
suffix(parts) ==
    LET last == parts[Len(parts)]
    IN  IF Len(last) > 1 /\ last[Len(last)] \in Extensions THEN last[Len(last)] ELSE ""

\* str.replace(old, ""): every occurrence is removed.
replace(str, old) == SelectSeq(str, LAMBDA tok : tok # old)

_cache_entry_name(target_path) ==
    replace(join("__", Parts(target_path)), suffix(Parts(target_path)))

\* dict.get(key) as a set: {} is None.
get(d, k) == IF k \in DOMAIN d THEN {d[k]} ELSE {}

_model_cache_entry_id(pm, mmm, cm, fp, catalog, model_path) ==
    LET mtimes == {pm[model_path]} \cup mmm \cup get(cm, ContextPath)
                  \cup get(cm, SQLMESH_PATH)
    IN  <<MaxOf(mtimes), fp, catalog>>

NoModel ==
    [fqn |-> "", depends_on |-> {}, path |-> "", kind |-> "", cols |-> FALSE,
     columns |-> {}, star |-> "", nesting |-> 0, schema_error |-> <<>>, valid |-> TRUE]

\* The closure _load of _load_sql_models for one path: parse the file and build
\* the model.  A seed model reads its seed file while it is built.
_load(L, path) ==
    LET c == content[path]
        raises == ~c.ok \/ (c.seed /\ SeedPath(path) \notin exists)
        L1 == [L EXCEPT !.inv = Append(@, [path |-> path, id |-> L.ids[path],
                                            ok |-> ~raises])]
    IN  IF ~c.ok
        THEN [L |-> [L1 EXCEPT !.err = "ConfigError", !.errpath = path], model |-> NoModel]
        ELSE IF c.seed /\ SeedPath(path) \notin exists
        THEN [L |-> [L1 EXCEPT !.err = "FileNotFoundError"], model |-> NoModel]
        ELSE [L |-> L1,
              model |-> [fqn |-> c.fqn, depends_on |-> c.deps \ {c.fqn}, path |-> path,
                         kind |-> IF c.seed THEN "seed" ELSE "sql",
                         cols |-> c.cols /\ c.star = "",
                         columns |-> IF c.cols /\ c.star = "" THEN c.columns ELSE {},
                         star |-> c.star, nesting |-> c.nesting,
                         schema_error |-> c.schema_error, valid |-> c.valid]]

\* ModelCache.get_or_load(name, entry_id, loader), the loader being _load of path.
get_or_load(L, name, entry_id, path) ==
    IF \E e \in L.cache : e.name = name /\ e.id = entry_id
    THEN [L |-> [L EXCEPT !.hits = Append(@, path)],
          model |-> (CHOOSE e \in L.cache : e.name = name /\ e.id = entry_id).model]
    ELSE LET r == _load(L, path)
         IN  IF r.L.err # "" THEN r
             ELSE [L |-> [r.L EXCEPT !.cache = @ \cup {[name |-> name, id |-> entry_id,
                                                         model |-> r.model]}],
                   model |-> r.model]

\* A variant that never consults the cache.
get_or_load_model_uncached(L, target_path) ==
    LET id == _model_cache_entry_id(L.pm, L.mmm, L.cm, fingerprint, default_catalog,
                                    target_path)
        r == _load([L EXCEPT !.ids = Put(@, target_path, id)], target_path)
    IN  [L |-> r.L, model |-> [r.model EXCEPT !.path = target_path]]

get_or_load_model(L, target_path) ==
    LET id == _model_cache_entry_id(L.pm, L.mmm, L.cm, fingerprint, default_catalog,
                                    target_path)
        r == get_or_load([L EXCEPT !.ids = Put(@, target_path, id)],
                         _cache_entry_name(target_path), id, target_path)
    IN  [L |-> r.L, model |-> [r.model EXCEPT !.path = target_path]]

(***************************************************************************)
(* SqlMeshLoader._load_sql_models, one path of the directory scan.         *)
(***************************************************************************)
\* A variant without the file-size test.
load_sql_model_unskipped(L, path) ==
    IF L.err # "" THEN L
    ELSE LET r == get_or_load_model(_track_file(L, path), path)
             L2 == setitem(r.L, r.model)
         IN  IF L2.err # "" THEN L2
             ELSE IF r.model.kind = "seed" THEN _track_file(L2, SeedPath(path))
             ELSE L2

load_sql_model(L, path) ==
    IF L.err # "" \/ content[path].empty THEN L
    ELSE LET r == get_or_load_model(_track_file(L, path), path)
             L2 == setitem(r.L, r.model)
         IN  IF L2.err # "" THEN L2
             ELSE IF r.model.kind = "seed" THEN _track_file(L2, SeedPath(path))
             ELSE L2

_load_sql_models(L) == FoldSeq(load_sql_model, [L EXCEPT !.local = <<>>], glob(ModelSqlFiles))

(***************************************************************************)
(* Loader._load_external_models: one model per row of a manifest.          *)
(***************************************************************************)
external_row(L, name) ==
    setitem(L, [fqn |-> name, depends_on |-> {}, path |-> "external_models.yaml",
                kind |-> "external", cols |-> TRUE,
                columns |-> content["external_models.yaml"].columns, star |-> "",
                nesting |-> content["external_models.yaml"].nesting,
                schema_error |-> <<>>, valid |-> TRUE])

load_external_file(L, path) ==
    IF L.err # "" THEN L
    ELSE IF ~content[path].ok THEN [_track_file(L, path) EXCEPT !.err = "YAMLError"]
    ELSE FoldSeq(external_row, _track_file(L, path), content[path].names)

_load_external_models(L) ==
    FoldSeq(load_external_file, [L EXCEPT !.local = <<>>], glob(ExternalFiles))

(***************************************************************************)
(* SqlMeshLoader._load_python_models: importing a file registers its       *)
(* models; each newly registered name yields a model.                      *)
(***************************************************************************)
python_model(L, name) ==
    setitem(L, [fqn |-> name, depends_on |-> content["models/p.py"].deps \ {name},
                path |-> "models/p.py", kind |-> "python",
                cols |-> content["models/p.py"].cols,
                columns |-> IF content["models/p.py"].cols
                            THEN content["models/p.py"].columns ELSE {},
                star |-> "", nesting |-> content["models/p.py"].nesting,
                schema_error |-> content["models/p.py"].schema_error,
                valid |-> content["models/p.py"].valid])

load_python_file(L, path) ==
    IF L.err # "" \/ content[path].empty THEN L
    ELSE IF ~content[path].ok THEN [_track_file(L, path) EXCEPT !.err = "ImportError"]
    ELSE FoldSeq(python_model, _track_file(L, path),
                 SelectSeq(NameOrder, LAMBDA n : n \in Range(content[path].names)))

_load_python_models(L) ==
    FoldSeq(load_python_file, [L EXCEPT !.local = <<>>], glob(ModelPyFiles))

(***************************************************************************)
(* SqlMeshLoader._load_models: the SQL models, updated with the external   *)
(* models, updated with the Python models.                                 *)
(***************************************************************************)
_load_models(L) ==
    LET L1 == _load_sql_models(L)
        L2 == _load_external_models(L1)
        L3 == _load_python_models(L2)
    IN  IF L1.err # "" THEN L1
        ELSE IF L2.err # "" THEN L2
        ELSE IF L3.err # "" THEN L3
        ELSE [L3 EXCEPT !.models = update(update(L1.local, L2.local), L3.local)]

(***************************************************************************)
(* DAG: add records a node, its dependencies and the edges; sorted is the  *)
(* topological order (dependencies first, ties by name) and raises on a    *)
(* cycle.                                                                  *)
(***************************************************************************)
dag_add(dag, node, dependencies) ==
    [n \in DOMAIN dag \cup {node} \cup dependencies |->
        (IF n \in DOMAIN dag THEN dag[n] ELSE {}) \cup (IF n = node THEN dependencies ELSE {})]

SortNames(S) == SelectSeq(NameOrder, LAMBDA n : n \in S)

RECURSIVE kahn(_, _)
kahn(g, acc) ==
    IF DOMAIN g = {} THEN [cycle |-> FALSE, order |-> acc]
    ELSE LET next == {n \in DOMAIN g : g[n] = {}}
         IN  IF next = {} THEN [cycle |-> TRUE, order |-> acc]
             ELSE kahn([n \in DOMAIN g \ next |-> g[n] \ next], acc \o SortNames(next))

sorted(dag) == kahn(dag, <<>>)

\* Loader._add_model_to_dag
_add_model_to_dag(L, model) == [L EXCEPT !.dag = dag_add(@, model.fqn, model.depends_on)]

call(L, op, fqn) == [L EXCEPT !.calls = Append(@, [op |-> op, fqn |-> fqn])]

(***************************************************************************)
(* update_model_schemas: the models of the graph in topological order.     *)
(***************************************************************************)
\* Model.update_schema(schema): a SELECT * FROM an upstream table is resolved to
\* the columns the schema holds for the upstream; with no entry for the upstream
\* the model's columns_to_types stays None.
update_schema(model, schema) ==
    IF model.star = "" THEN model
    ELSE IF model.star \in DOMAIN schema
    THEN [model EXCEPT !.cols = TRUE, !.columns = schema[model.star]]
    ELSE [model EXCEPT !.cols = FALSE, !.columns = {}]

\* A variant that leaves the running schema as it is.
add_table_dropped(schema, fqn, columns_to_types) == schema

\* MappingSchema.add_table(fqn, columns_to_types)
add_table(schema, fqn, columns_to_types) == Put(schema, fqn, columns_to_types)

\* str(e) of the SchemaError a table raises whose name has another number of
\* parts than the tables the schema holds.
NestingMessage(fqn, depth) ==
    <<"Table ", fqn, " must match the schema's ", "nesting level:", depth>>

NestingDiagnostic ==
    [level |-> "error",
     msg |-> "SQLMesh requires all model names and references to have the same level of nesting."]

\* A variant that logs the diagnostic for every SchemaError.
except_SchemaError_always_logged(L, e) ==
    [L EXCEPT !.log = Append(@, NestingDiagnostic), !.err = "SchemaError", !.errmsg = e]

\* except SchemaError as e: the diagnostic for a nesting-level message; raise.
except_SchemaError(L, e) ==
    [L EXCEPT !.log = IF \E i \in DOMAIN e : e[i] = "nesting level:"
                      THEN Append(@, NestingDiagnostic) ELSE @,
              !.err = "SchemaError", !.errmsg = e]

schema_step(L, name) ==
    IF L.err # "" \/ ~HasKey(L.models, name) THEN L
    ELSE IF Get(L.models, name).schema_error # <<>>
    THEN except_SchemaError(call(L, "update_schema", name), Get(L.models, name).schema_error)
    ELSE LET model == update_schema(Get(L.models, name), L.schema)
             L1 == call(call([L EXCEPT !.models = update_one(@, model)],
                             "update_schema", name), "with_optimized_query", name)
         IN  IF ~model.cols THEN L1
             ELSE IF L1.depth \notin {0, model.nesting}
             THEN except_SchemaError(call(L1, "add_table", name),
                                     NestingMessage(model.fqn, L1.depth))
             ELSE call([L1 EXCEPT !.schema = add_table(@, model.fqn, model.columns),
                                  !.depth = model.nesting],
                       "add_table", name)

\* A variant that visits the nodes while the order is being computed, and so
\* finds a cycle only after the nodes outside it.
update_model_schemas_lazy(L) ==
    LET s == sorted(L.dag)
        L1 == FoldSeq(schema_step, [L EXCEPT !.schema = EmptyMap, !.depth = 0], s.order)
    IN  IF s.cycle THEN [L1 EXCEPT !.err = "CycleError"] ELSE L1

\* A variant that visits the models in the order they were loaded.
update_model_schemas_unsorted(L) ==
    LET s == sorted(L.dag)
    IN  IF s.cycle THEN [L EXCEPT !.err = "CycleError"]
        ELSE FoldSeq(schema_step, [L EXCEPT !.schema = EmptyMap, !.depth = 0],
                     [i \in DOMAIN L.models |-> L.models[i].fqn])

update_model_schemas(L) ==
    LET s == sorted(L.dag)
    IN  IF s.cycle THEN [L EXCEPT !.err = "CycleError"]
        ELSE FoldSeq(schema_step, [L EXCEPT !.schema = EmptyMap, !.depth = 0], s.order)

\* model.validate_definition(): raises ConfigError for a definition that is
\* not valid, which ends the loop over the models and the load.
validate_definition(L, model) ==
    IF L.err # "" THEN L
    ELSE IF ~model.valid
    THEN [call(L, "validate_definition", model.fqn) EXCEPT !.err = "ConfigError",
                                                            !.errpath = model.path]
    ELSE call(L, "validate_definition", model.fqn)

(***************************************************************************)
(* SqlMeshLoader._load_metrics and _load_audits.                           *)
(***************************************************************************)
\* A variant that stores with dict.update, which overwrites a present name.
named_overwrite(L, name) ==
    IF L.err # "" THEN L
    ELSE [L EXCEPT !.local = update_one(@, [NoModel EXCEPT !.fqn = name])]

named(L, name) ==
    setitem(L, [NoModel EXCEPT !.fqn = name])

load_metric_file(L, path) ==
    IF L.err # "" \/ content[path].empty THEN L
    ELSE IF ~content[path].ok
    THEN [_track_file(L, path) EXCEPT !.err = "ConfigError", !.errpath = path]
    ELSE FoldSeq(named, _track_file(L, path), content[path].names)

_load_metrics(L) ==
    LET L1 == FoldSeq(load_metric_file, [L EXCEPT !.local = <<>>], glob(MetricFiles))
    IN  IF L1.err # "" THEN L1 ELSE [L1 EXCEPT !.metrics = L1.local]

load_audit_file(L, path) ==
    IF L.err # "" THEN L
    ELSE IF ~content[path].ok THEN [_track_file(L, path) EXCEPT !.err = "SqlglotError"]
    ELSE FoldSeq(named, _track_file(L, path), content[path].names)

_load_audits(L) ==
    LET L1 == FoldSeq(load_audit_file, [L EXCEPT !.local = <<>>], glob(AuditFiles))
    IN  IF L1.err # "" THEN L1 ELSE [L1 EXCEPT !.audits = L1.local]

(***************************************************************************)
(* Loader.load.  Each phase is skipped once an exception is pending.       *)
(***************************************************************************)
then_scripts(L) == IF L.err # "" THEN L ELSE _load_scripts(L)

then_models(L) == IF L.err # "" THEN L ELSE _load_models(L)

then_dag(L) == IF L.err # "" THEN L ELSE FoldSeq(_add_model_to_dag, L, L.models)

\* A variant that propagates the schemas whatever update_schemas is.
then_schemas_always(L, update_schemas) ==
    IF L.err # "" THEN L
    ELSE FoldSeq(validate_definition, update_model_schemas(L), L.models)

\* A variant that validates the definitions before the schemas are set.
then_schemas_validated_first(L, update_schemas) ==
    IF L.err # "" \/ ~update_schemas THEN L
    ELSE LET L1 == FoldSeq(validate_definition, L, L.models)
         IN  IF L1.err # "" THEN L1 ELSE update_model_schemas(L1)

then_schemas(L, update_schemas) ==
    IF L.err # "" \/ ~update_schemas THEN L
    ELSE FoldSeq(validate_definition, update_model_schemas(L), L.models)

then_metrics(L) == IF L.err # "" THEN L ELSE _load_metrics(L)

then_audits(L) == IF L.err # "" THEN L ELSE _load_audits(L)

load(L, update_schemas) ==
    then_audits(then_metrics(then_schemas(
        then_dag(then_models(then_scripts(track_configs(load_reset(L))))),
        update_schemas)))

\* The loader record a call of load starts from.
Start ==
    [pm |-> path_mtimes, mmm |-> macros_max_mtime, cm |-> config_mtimes,
     reg |-> registry, cache |-> cache, err |-> "", errpath |-> "", errmsg |-> <<>>,
     log |-> <<>>, calls |-> <<>>, inv |-> <<>>,
     ids |-> EmptyMap, hits |-> <<>>, macros |-> {}, jinja |-> {}, models |-> <<>>,
     local |-> <<>>, dag |-> result.dag, schema |-> EmptyMap, depth |-> 0, audits |-> <<>>,
     metrics |-> <<>>]

(***************************************************************************)
(* The state a process starts in: nothing tracked, nothing cached, the     *)
(* registry holding the standard macros.                                   *)
(***************************************************************************)
NoResult ==
    [status |-> "none", err |-> "", errpath |-> "", errmsg |-> <<>>, log |-> <<>>,
     update_schemas |-> FALSE, macros |-> {},
     jinja |-> {}, models |-> <<>>, dag |-> EmptyMap, audits |-> <<>>,
     metrics |-> <<>>, calls |-> <<>>, inv |-> <<>>, ids |-> EmptyMap, hits |-> <<>>]

\* No path has been handed to _cache_entry_name; no scheduler client exists.
NoTarget ==
    [parts |-> <<>>, name |-> <<>>, other |-> <<>>, other_name |-> <<>>, done |-> FALSE]

NoCall ==
    [op |-> "", name |-> "", id |-> "", new_snapshots |-> <<>>, environment |-> EmptyMap,
     request_id |-> "", given |-> EmptyMap]

NoSession ==
    [requests |-> <<>>, pc |-> "idle", call |-> NoCall, sent |-> 0, calls |-> 0,
     response |-> [kind |-> "none", status |-> 0, json |-> EmptyMap],
     outcome |-> [kind |-> "none", error |-> "", value |-> "None"]]

\* No context has selected a gateway; init_example_project was not called.
NoContext ==
    [gateway |-> "", default_gateway_name |-> "", config |-> EmptyMap,
     variables |-> EmptyMap, log |-> <<>>, done |-> FALSE]

NoCli ==
    [calls |-> 0, template |-> "", raised |-> "", touched |-> {},
     before |-> [exists |-> {}, content |-> EmptyMap], succeeded |-> FALSE]

NoHist ==
    [mtimeAt |-> [f \in Files |-> 1], existsAt |-> {}, regBefore |-> {},
     prevIds |-> EmptyMap, sig |-> {}, ran |-> {}, again |-> {}, okran |-> {},
     okagain |-> {}]

InitLoader ==
    /\ path_mtimes = EmptyMap
    /\ macros_max_mtime = {}
    /\ config_mtimes = EmptyMap
    /\ registry = StandardMacros
    /\ cache = {}
    /\ result = NoResult
    /\ hist = NoHist
    /\ threads = EmptyMap
    /\ target = NoTarget
    /\ session = NoSession
    /\ context = NoContext
    /\ cli = NoCli

Catalogs == {"", "c1"}
Fingerprints == {"f1", "f2"}

(***************************************************************************)
(* Loader.load as one step of the process: the loader's fields, the        *)
(* registry and the cache take the values the call leaves, also when it    *)
(* raises.  hist records what the call saw.                                *)
(***************************************************************************)
Pairs(invocations) == {[path |-> i.path, id |-> i.id] : i \in Range(invocations)}

Returned(invocations) == Pairs(SelectSeq(invocations, LAMBDA i : i.ok))

Load(update_schemas) ==
    /\ budget.loads > 0
    /\ \E L \in {load(Start, update_schemas)} :
           /\ path_mtimes' = L.pm
           /\ macros_max_mtime' = L.mmm
           /\ config_mtimes' = L.cm
           /\ registry' = L.reg
           /\ cache' = L.cache
           /\ result' = [status |-> IF L.err = "" THEN "ok" ELSE "error", err |-> L.err,
                         errpath |-> L.errpath, errmsg |-> L.errmsg, log |-> L.log,
                         update_schemas |-> update_schemas, macros |-> L.macros,
                         jinja |-> L.jinja, models |-> L.models, dag |-> L.dag,
                         audits |-> L.audits, metrics |-> L.metrics, calls |-> L.calls,
                         inv |-> L.inv, ids |-> L.ids, hits |-> L.hits]
           /\ hist' = [mtimeAt |-> mtime, existsAt |-> exists, regBefore |-> registry,
                       prevIds |-> result.ids,
                       sig |-> {f \in DOMAIN path_mtimes :
                                   f \notin exists \/ mtime[f] > path_mtimes[f]},
                       ran |-> hist.ran \cup Pairs(L.inv),
                       again |-> hist.again \cup (hist.ran \cap Pairs(L.inv)),
                       okran |-> hist.okran \cup Returned(L.inv),
                       okagain |-> hist.okagain \cup (hist.okran \cap Pairs(L.inv))]
    /\ budget' = [budget EXCEPT !.loads = @ - 1]
    /\ UNCHANGED <<fsvars, threads, context, cli, target, session>>

(***************************************************************************)
(* The file system and the context change between loads.                   *)
(***************************************************************************)
Mutable == {"config.py", "macros/m.py", "models/a.sql", "seeds/s.csv"}

Spend == budget' = [budget EXCEPT !.changes = @ - 1]

\* A path gets another modification time (an edit, or a file moved over it).
Touch(f, t) ==
    /\ budget.changes > 0 /\ f \in exists /\ t # mtime[f]
    /\ mtime' = [mtime EXCEPT ![f] = t]
    /\ Spend
    /\ UNCHANGED <<exists, content, fingerprint, default_catalog, loadervars, result, hist, threads,
                   context, cli, target, session>>

Delete(f) ==
    /\ budget.changes > 0 /\ f \in exists
    /\ exists' = exists \ {f}
    /\ Spend
    /\ UNCHANGED <<mtime, content, fingerprint, default_catalog, loadervars, result, hist, threads,
                   context, cli, target, session>>

Create(f, t) ==
    /\ budget.changes > 0 /\ f \notin exists
    /\ exists' = exists \cup {f}
    /\ mtime' = [mtime EXCEPT ![f] = t]
    /\ Spend
    /\ UNCHANGED <<content, fingerprint, default_catalog, loadervars, result, hist, threads,
                   context, cli, target, session>>

\* Another gateway is selected: the default catalog changes, no file does.
SetCatalog(c) ==
    /\ budget.changes > 0 /\ c # default_catalog
    /\ default_catalog' = c
    /\ Spend
    /\ UNCHANGED <<exists, mtime, content, fingerprint, loadervars, result, hist, threads,
                   context, cli, target, session>>

Init ==
    /\ exists = Files
    /\ mtime = [f \in Files |-> 1]
    /\ \E okb \in BOOLEAN, sqlmacro \in BOOLEAN :
          content = [f \in Files |->
                       IF f = "models/b.sql" THEN [DefaultContent(f) EXCEPT !.ok = okb]
                       ELSE IF f = "macros/add.sql"
                       THEN [DefaultContent(f) EXCEPT !.begin = sqlmacro]
                       ELSE DefaultContent(f)]
    /\ fingerprint = "f1"
    /\ default_catalog = ""
    /\ InitLoader
    /\ budget = [changes |-> MaxChanges, loads |-> MaxLoads]

Next ==
    \/ Load(TRUE)
    \/ \E f \in Mutable, t \in Times : Touch(f, t)
    \/ \E f \in Mutable : Delete(f)
    \/ \E f \in Mutable, t \in Times : Create(f, t)
    \/ \E c \in Catalogs : SetCatalog(c)

Spec == Init /\ [][Next]_vars

(***************************************************************************)
(* Loads of projects of every shape: the definitions are drawn at the      *)
(* start, the files do not change, and load is called with either value of *)
(* update_schemas.                                                         *)
(***************************************************************************)
InitGraph ==
    /\ exists = Files
    /\ mtime = [f \in Files |-> 1]
    /\ \E fa \in {"A", "B"}, da \in SUBSET {"B", "X"}, fb \in {"A", "B"},
          db \in {{}, {"A"}, {"A", "X"}}, ext \in {<<>>, <<"X">>, <<"A">>},
          py \in {<<>>, <<"X">>, <<"B">>}, dp \in {{}, {"A"}} :
          content = [f \in Files |->
                       CASE f = "models/a.sql" -> [Plain EXCEPT !.fqn = fa, !.deps = da]
                         [] f = "models/b.sql" -> [Plain EXCEPT !.fqn = fb, !.deps = db]
                         [] f = "external_models.yaml" -> [Plain EXCEPT !.names = ext]
                         [] f = "models/p.py" -> [Plain EXCEPT !.names = py, !.deps = dp]
                         [] OTHER -> DefaultContent(f)]
    /\ fingerprint = "f1"
    /\ default_catalog = ""
    /\ InitLoader
    /\ budget = [changes |-> 0, loads |-> MaxLoads]

NextGraph == \E u \in BOOLEAN : Load(u)

SpecGraph == InitGraph /\ [][NextGraph]_vars

(***************************************************************************)
(* Loads of projects whose files are sound, broken or empty, and whose     *)
(* audit and metric files may define a name twice, in one file or in two.  *)
(***************************************************************************)
\* A file the parser (or the import) fails on.
Broken(f) == [DefaultContent(f) EXCEPT !.ok = FALSE]

\* A zero-byte file: it defines nothing, and a SQL model built from it is incomplete.
ZeroByte(f) == [Plain EXCEPT !.empty = TRUE, !.ok = f \notin Range(ModelSqlFiles)]

\* A file that holds each of its definitions twice.
Twice(f) == [DefaultContent(f) EXCEPT !.names = @ \o @]

\* A file that defines the names another file defines.
Same(f, g) == [DefaultContent(f) EXCEPT !.names = DefaultContent(g).names]

InitProject ==
    /\ exists = Files
    /\ mtime = [f \in Files |-> 1]
    /\ \E ca \in {DefaultContent("models/a.sql"), Broken("models/a.sql"),
                   ZeroByte("models/a.sql")},
          cp \in {[Plain EXCEPT !.names = <<"P">>], Broken("models/p.py"),
                   ZeroByte("models/p.py")},
          ck \in {DefaultContent("metrics/k.sql"), Broken("metrics/k.sql"),
                   ZeroByte("metrics/k.sql"), Twice("metrics/k.sql")},
          cj \in {DefaultContent("metrics/j.sql"), Same("metrics/j.sql", "metrics/k.sql")},
          cu \in {DefaultContent("audits/u.sql"), Broken("audits/u.sql"),
                   Twice("audits/u.sql")},
          cv \in {DefaultContent("audits/v.sql"), Same("audits/v.sql", "audits/u.sql")},
          cm \in {DefaultContent("macros/add.sql"), Broken("macros/add.sql")} :
          content = [f \in Files |->
                       CASE f = "models/a.sql" -> ca
                         [] f = "models/p.py" -> cp
                         [] f = "metrics/k.sql" -> ck
                         [] f = "metrics/j.sql" -> cj
                         [] f = "audits/u.sql" -> cu
                         [] f = "audits/v.sql" -> cv
                         [] f = "macros/add.sql" -> cm
                         [] OTHER -> DefaultContent(f)]
    /\ fingerprint = "f1"
    /\ default_catalog = ""
    /\ InitLoader
    /\ budget = [changes |-> 0, loads |-> MaxLoads]

SpecProject == InitProject /\ [][NextGraph]_vars

(***************************************************************************)
(* Loads of projects whose SQL models select from one another: a model     *)
(* lists its columns or is a SELECT * FROM one upstream table.  The        *)
(* upstream may be a model of the project, an external model or a table    *)
(* nothing declares; a model file may be removed between two loads.        *)
(***************************************************************************)
\* The columns of the example project's incremental model.
ExampleColumns == {"id", "item_id", "ds"}

\* A model that lists its columns, and one that selects * from an upstream.
Listing(fqn, columns, deps) ==
    [Plain EXCEPT !.fqn = fqn, !.columns = columns, !.deps = deps]

StarFrom(fqn, upstream) == [Plain EXCEPT !.fqn = fqn, !.star = upstream, !.deps = {upstream}]

Removable == {"models/b.sql", "models/c.sql"}

InitChain ==
    /\ exists = Files
    /\ mtime = [f \in Files |-> 1]
    /\ \E ca \in {Listing("A", ExampleColumns, {}), StarFrom("A", "X"), StarFrom("A", "B")},
          cb \in {StarFrom("B", "A"), Listing("B", {"id"}, {"A"}), Listing("B", {"id"}, {})},
          cc \in {StarFrom("C", "B"), StarFrom("C", "A"), DefaultContent("models/c.sql")},
          ext \in {<<>>, <<"X">>} :
          content = [f \in Files |->
                       CASE f = "models/a.sql" -> ca
                         [] f = "models/b.sql" -> cb
                         [] f = "models/c.sql" -> cc
                         [] f = "external_models.yaml" ->
                              [Plain EXCEPT !.names = ext, !.columns = {"id", "ds"}]
                         [] OTHER -> DefaultContent(f)]
    /\ fingerprint = "f1"
    /\ default_catalog = ""
    /\ InitLoader
    /\ budget = [changes |-> 1, loads |-> MaxLoads]

NextChain ==
    \/ \E u \in BOOLEAN : Load(u)
    \/ \E f \in Removable : Delete(f)

SpecChain == InitChain /\ [][NextChain]_vars

(***************************************************************************)
(* Loads of projects whose models' schemas cannot all be set: a model's    *)
(* name has two or three parts, setting a model's schema may raise a       *)
(* SchemaError of its own, and a model's definition may be invalid.        *)
(***************************************************************************)
NestingLevels == {2, 3}

\* str(e) of a SchemaError that is not about nesting.
OtherSchemaMessage == <<"Unknown column type ", "'foo'">>

Nested(c) ==
    {[c EXCEPT !.nesting = n, !.schema_error = e, !.valid = v] :
        n \in NestingLevels, e \in {<<>>, OtherSchemaMessage}, v \in BOOLEAN}

InitSchema ==
    /\ exists = Files
    /\ mtime = [f \in Files |-> 1]
    /\ \E ca \in Nested(Listing("A", ExampleColumns, {})),
          cb \in Nested(StarFrom("B", "A")) \cup Nested(Listing("B", {"id"}, {"A"})),
          cc \in Nested(StarFrom("C", "B")) \cup Nested(Listing("C", {"id"}, {})) :
          content = [f \in Files |->
                       CASE f = "models/a.sql" -> ca
                         [] f = "models/b.sql" -> cb
                         [] f = "models/c.sql" -> cc
                         [] f = "external_models.yaml" -> [Plain EXCEPT !.names = <<>>]
                         [] OTHER -> DefaultContent(f)]
    /\ fingerprint = "f1"
    /\ default_catalog = ""
    /\ InitLoader
    /\ budget = [changes |-> 0, loads |-> MaxLoads]

SpecSchema == InitSchema /\ [][NextGraph]_vars

(***************************************************************************)
(* The cache entry name as a function of the path: the components of a SQL *)
(* model file's path below the models directory are drawn from runs of     *)
(* characters that hold no dot (a, b) and the texts .sql and .py; the file *)
(* name ends in .sql, as the scan yields it.  One step computes the name.  *)
(***************************************************************************)
MaxParts == 2
MaxTokens == 2

PathTokens == {"a", "b", ".sql", ".py"}

Components == UNION {[1..n -> PathTokens] : n \in 1..MaxTokens}

FileComponents == {c \in Components : c[Len(c)] = ".sql"}

Directories == UNION {[1..n -> Components] : n \in 0..(MaxParts - 1)}

InitName ==
    /\ exists = Files
    /\ mtime = [f \in Files |-> 1]
    /\ content = [f \in Files |-> DefaultContent(f)]
    /\ fingerprint = "f1"
    /\ default_catalog = ""
    /\ path_mtimes = EmptyMap
    /\ macros_max_mtime = {}
    /\ config_mtimes = EmptyMap
    /\ registry = StandardMacros
    /\ cache = {}
    /\ result = NoResult
    /\ hist = NoHist
    /\ budget = [changes |-> 0, loads |-> 0]
    /\ threads = EmptyMap
    /\ session = NoSession
    /\ context = NoContext
    /\ cli = NoCli
    /\ \E dirs \in Directories, file \in FileComponents :
          target = [NoTarget EXCEPT !.parts = << <<"models">> >> \o dirs \o <<file>>]

\* self._cache_entry_name(target_path)
EntryName ==
    /\ ~target.done
    /\ target' = [target EXCEPT !.name = _cache_entry_name(TargetPath), !.done = TRUE]
    /\ UNCHANGED <<fsvars, loadervars, result, hist, budget, threads, context, cli, session>>

SpecName == InitName /\ [][EntryName]_vars

(***************************************************************************)
(* Two SQL model files of one project, loaded one after the other by the   *)
(* scan of _load_sql_models into an empty cache.  A file lies in the       *)
(* models directory or one directory below, and a file's name may hold the *)
(* text __ itself.                                                         *)
(***************************************************************************)
PairDirectories == {<<>>, << <<"a">> >>, << <<"a", ".sql">> >>}

PairFiles == {<<"a", ".sql">>, <<"b", ".sql">>, <<"a", "__", "b", ".sql">>}

PairPaths == {<< <<"models">> >> \o d \o <<f>> : d \in PairDirectories, f \in PairFiles}

InitPair ==
    /\ exists = Files \cup {TargetPath, OtherPath}
    /\ mtime = [f \in Files \cup {TargetPath, OtherPath} |-> 1]
    /\ content = [f \in Files \cup {TargetPath, OtherPath} |->
                     CASE f = TargetPath -> Listing("A", ExampleColumns, {})
                       [] f = OtherPath -> Listing("B", {"id"}, {"A"})
                       [] OTHER -> DefaultContent(f)]
    /\ fingerprint = "f1"
    /\ default_catalog = ""
    /\ path_mtimes = EmptyMap
    /\ macros_max_mtime = {}
    /\ config_mtimes = EmptyMap
    /\ registry = StandardMacros
    /\ cache = {}
    /\ result = NoResult
    /\ hist = NoHist
    /\ budget = [changes |-> 0, loads |-> 0]
    /\ threads = EmptyMap
    /\ session = NoSession
    /\ context = NoContext
    /\ cli = NoCli
    /\ \E p \in PairPaths : \E q \in PairPaths \ {p} :
          target = [NoTarget EXCEPT !.parts = p, !.other = q]

\* The loop of _load_sql_models over the two files.
LoadPair ==
    /\ ~target.done
    /\ \E L \in {FoldSeq(load_sql_model, [Start EXCEPT !.local = <<>>],
                          <<TargetPath, OtherPath>>)} :
          /\ path_mtimes' = L.pm
          /\ cache' = L.cache
          /\ result' = [NoResult EXCEPT !.status = IF L.err = "" THEN "ok" ELSE "error",
                                        !.err = L.err, !.models = L.local, !.inv = L.inv,
                                        !.ids = L.ids, !.hits = L.hits]
    /\ target' = [target EXCEPT !.name = _cache_entry_name(TargetPath),
                                !.other_name = _cache_entry_name(OtherPath),
                                !.done = TRUE]
    /\ UNCHANGED <<fsvars, macros_max_mtime, config_mtimes, registry, hist, budget, threads,
                   session, context, cli>>

SpecPair == InitPair /\ [][LoadPair]_vars

(***************************************************************************)
(* The scheduler client (AirflowClient) and its HTTP session, after the    *)
(* wire protocol and the client's tests                                    *)
(* (tests/schedulers/airflow/test_client.py).  A call sends its request    *)
(* and blocks; the session then answers with a response or fails to        *)
(* connect, and the call returns or raises.  Texts such as URLs are        *)
(* sequences of tokens.  Python's None is "None", JSON's null is "null".   *)
(***************************************************************************)
MaxCalls == 2

None == "None"
null == "null"

AIRFLOW_LOCAL_URL == "http://localhost:8080"

\* The snapshot fixture of the tests: a model and the snapshot made from it.
TestModel(name) ==
    [cls |-> "SqlModel", name |-> name, storage_format |-> "parquet",
     partitioned_by |-> <<"a">>, query |-> [select |-> <<"a", "ds">>, from |-> "tbl"],
     expressions |-> << [macro |-> "DEF", args |-> <<"key", "'value'">>] >>,
     kind |-> [cls |-> "IncrementalByTimeRangeKind", time_column |-> "ds"],
     cron |-> "@daily", dialect |-> "", audits |-> <<>>, pre |-> <<>>, post |-> <<>>]

TestSnapshot(name) ==
    [cls |-> "Snapshot", name |-> name, fingerprint |-> <<"fingerprint", name>>,
     physical_schema |-> "physical_schema", ttl |-> "in 1 week",
     created_ts |-> "1665014400000", updated_ts |-> "1665014400000",
     version |-> <<"version", name>>, intervals |-> <<>>, dev_intervals |-> <<>>,
     indirect_versions |-> EmptyMap, previous_versions |-> <<>>, parents |-> <<>>,
     audits |-> <<>>, model |-> TestModel(name)]

\* Snapshot.table_info
table_info(s) ==
    [cls |-> "SnapshotTableInfo", fingerprint |-> s.fingerprint, name |-> s.name,
     physical_schema |-> s.physical_schema, previous_versions |-> s.previous_versions,
     version |-> s.version, parents |-> s.parents, is_materialized |-> TRUE,
     is_embedded_kind |-> FALSE]

TestEnvironment(name, snapshots, previous_plan_id) ==
    [cls |-> "Environment", name |-> name,
     snapshots |-> [i \in DOMAIN snapshots |-> table_info(snapshots[i])],
     start_at |-> "2022-01-01", end_at |-> "2022-01-01", plan_id |-> "test_plan_id",
     previous_plan_id |-> previous_plan_id]

(***************************************************************************)
(* Serialization to JSON: an object becomes a JSON object of its fields,   *)
(* an expression its SQL text, None becomes null.                          *)
(***************************************************************************)
optional_json(v) == IF v = None THEN null ELSE v

RECURSIVE comma_separated(_)
comma_separated(names) ==
    IF Len(names) <= 1 THEN names
    ELSE <<Head(names), ",">> \o comma_separated(Tail(names))

\* Expression.sql() of a query and of a macro call.
query_sql(q) == <<"SELECT">> \o comma_separated(q.select) \o <<"FROM", q.from>>

macro_sql(e) == <<"@", e.macro, "(">> \o comma_separated(e.args) \o <<")">>

model_json(m) ==
    [audits |-> m.audits, cron |-> m.cron, dialect |-> m.dialect,
     expressions |-> [i \in DOMAIN m.expressions |-> macro_sql(m.expressions[i])],
     pre |-> m.pre, post |-> m.post,
     kind |-> [name |-> "incremental_by_time_range",
               time_column |-> [column |-> m.kind.time_column]],
     name |-> m.name, partitioned_by |-> m.partitioned_by, query |-> query_sql(m.query),
     storage_format |-> m.storage_format, source_type |-> "sql"]

\* An interval is a (start, end) tuple; JSON has it as a list of two.
intervals_json(intervals) ==
    [i \in DOMAIN intervals |-> <<intervals[i].start, intervals[i].end>>]

snapshot_json(s) ==
    [created_ts |-> s.created_ts, ttl |-> s.ttl, fingerprint |-> s.fingerprint,
     indirect_versions |-> s.indirect_versions, intervals |-> intervals_json(s.intervals),
     dev_intervals |-> intervals_json(s.dev_intervals), model |-> model_json(s.model),
     audits |-> s.audits, name |-> s.name, parents |-> s.parents,
     previous_versions |-> s.previous_versions, physical_schema |-> s.physical_schema,
     updated_ts |-> s.updated_ts, version |-> s.version]

table_info_json(t) ==
    [fingerprint |-> t.fingerprint, name |-> t.name, physical_schema |-> t.physical_schema,
     previous_versions |-> t.previous_versions, version |-> t.version,
     parents |-> t.parents, is_materialized |-> t.is_materialized,
     is_embedded_kind |-> t.is_embedded_kind]

environment_json(e) ==
    [name |-> e.name,
     snapshots |-> [i \in DOMAIN e.snapshots |-> table_info_json(e.snapshots[i])],
     start_at |-> e.start_at, end_at |-> e.end_at, plan_id |-> e.plan_id,
     previous_plan_id |-> optional_json(e.previous_plan_id)]

(***************************************************************************)
(* Deserialization (parse_raw): the fields of a JSON object become the     *)
(* object of the class asked for, a SQL text is parsed to its expression,  *)
(* null becomes None, a list of two becomes an interval.                   *)
(***************************************************************************)
\* A variant that keeps a JSON null as it is.
optional_parse_raw(v) == v

optional_parse(v) == IF v = null THEN None ELSE v

without_commas(tokens) == SelectSeq(tokens, LAMBDA tok : tok # ",")

\* parse_one of a query's text and of a macro call's text.
query_parse(sql) ==
    [select |-> without_commas(SubSeq(sql, 2, Len(sql) - 2)), from |-> sql[Len(sql)]]

macro_parse(sql) ==
    [macro |-> sql[2], args |-> without_commas(SubSeq(sql, 4, Len(sql) - 1))]

model_parse(j) ==
    [cls |-> "SqlModel", name |-> j.name, storage_format |-> j.storage_format,
     partitioned_by |-> j.partitioned_by, query |-> query_parse(j.query),
     expressions |-> [i \in DOMAIN j.expressions |-> macro_parse(j.expressions[i])],
     kind |-> [cls |-> "IncrementalByTimeRangeKind",
               time_column |-> j.kind.time_column.column],
     cron |-> j.cron, dialect |-> j.dialect, audits |-> j.audits, pre |-> j.pre,
     post |-> j.post]

intervals_parse(intervals) ==
    [i \in DOMAIN intervals |-> [start |-> intervals[i][1], end |-> intervals[i][2]]]

\* Snapshot.parse_raw
snapshot_parse(j) ==
    [cls |-> "Snapshot", name |-> j.name, fingerprint |-> j.fingerprint,
     physical_schema |-> j.physical_schema, ttl |-> j.ttl, created_ts |-> j.created_ts,
     updated_ts |-> j.updated_ts, version |-> j.version,
     intervals |-> intervals_parse(j.intervals),
     dev_intervals |-> intervals_parse(j.dev_intervals),
     indirect_versions |-> j.indirect_versions,
     previous_versions |-> j.previous_versions, parents |-> j.parents,
     audits |-> j.audits, model |-> model_parse(j.model)]

table_info_parse(j) ==
    [cls |-> "SnapshotTableInfo", fingerprint |-> j.fingerprint, name |-> j.name,
     physical_schema |-> j.physical_schema, previous_versions |-> j.previous_versions,
     version |-> j.version, parents |-> j.parents, is_materialized |-> j.is_materialized,
     is_embedded_kind |-> j.is_embedded_kind]

\* Environment.parse_raw
environment_parse(j) ==
    [cls |-> "Environment", name |-> j.name,
     snapshots |-> [i \in DOMAIN j.snapshots |-> table_info_parse(j.snapshots[i])],
     start_at |-> j.start_at, end_at |-> j.end_at, plan_id |-> j.plan_id,
     previous_plan_id |-> optional_parse(j.previous_plan_id)]

(***************************************************************************)
(* The requests of the client's operations.                                *)
(***************************************************************************)
\* The submission parameters of apply_plan and what they are when not given.
PlanDefaults ==
    [no_gaps |-> FALSE, skip_backfill |-> FALSE, notification_targets |-> <<>>,
     restatements |-> <<>>, backfill_concurrent_tasks |-> 1, ddl_concurrent_tasks |-> 1,
     users |-> <<>>, is_dev |-> FALSE]

\* A variant that sends only the parameters the caller gave.
plan_parameters_given(given) == given

\* The parameters of a submission: the caller's where given, else the defaults.
plan_parameters(given) ==
    [k \in DOMAIN PlanDefaults |-> IF k \in DOMAIN given THEN given[k] ELSE PlanDefaults[k]]

\* PlanApplicationRequest(...).json()
plan_application_request(c) ==
    LET basic == [new_snapshots |-> [i \in DOMAIN c.new_snapshots |->
                                        snapshot_json(c.new_snapshots[i])],
                  environment |-> environment_json(c.environment),
                  request_id |-> c.request_id]
        params == plan_parameters(c.given)
    IN  [k \in DOMAIN basic \cup DOMAIN params |->
            IF k \in DOMAIN basic THEN basic[k] ELSE params[k]]

variable_url(key) == <<AIRFLOW_LOCAL_URL, "/api/v1/variables/">> \o key

\* The one request an operation sends.
request_of(c) ==
    CASE c.op = "apply_plan" ->
           [method |-> "POST", url |-> <<AIRFLOW_LOCAL_URL, "/sqlmesh/api/v1/plans">>,
            body |-> plan_application_request(c)]
      [] c.op = "get_environment" ->
           [method |-> "GET", url |-> variable_url(<<"sqlmesh__environment", "__", c.name>>),
            body |-> EmptyMap]
      [] c.op = "get_snapshot" ->
           [method |-> "GET",
            url |-> variable_url(<<"sqlmesh__snapshot_payload", "__", c.name, "__", c.id>>),
            body |-> EmptyMap]
      [] c.op = "get_snapshot_ids" ->
           [method |-> "GET",
            url |-> <<AIRFLOW_LOCAL_URL, "/api/v1/variables", "?limit=10000000">>,
            body |-> EmptyMap]
      [] c.op = "get_snapshot_identifiers_for_version" ->
           [method |-> "GET",
            url |-> variable_url(<<"sqlmesh__snapshot_version_index", "__", c.name, "__",
                                   c.id>>),
            body |-> EmptyMap]
      [] c.op = "get_dag_run_state" ->
           [method |-> "GET",
            url |-> <<AIRFLOW_LOCAL_URL, "/api/v1/dags/", c.name, "/dagRuns/", c.id>>,
            body |-> EmptyMap]

\* An operation starts: the client sends its request and waits for the answer.
send(ses, c) ==
    [ses EXCEPT !.requests = Append(@, request_of(c)), !.pc = "waiting", !.call = c,
                !.sent = 1, !.calls = @ + 1,
                !.response = [kind |-> "none", status |-> 0, json |-> EmptyMap],
                !.outcome = [kind |-> "none", error |-> "", value |-> None]]

\* The session could not connect, or the scheduler answered outside 2xx.
failed(r) == r.kind = "connection_error" \/ r.status \div 100 # 2

(***************************************************************************)
(* What an operation returns from the JSON of a good answer.               *)
(***************************************************************************)
SNAPSHOT_PAYLOAD_KEY_PREFIX == "sqlmesh__snapshot_payload"

\* The variable key a snapshot is stored under.
snapshot_key(id) ==
    <<SNAPSHOT_PAYLOAD_KEY_PREFIX, "__">> \o id.name \o <<"__">> \o id.identifier

\* A variant that ends the name at the first separator after the prefix.
snapshot_id_at_first(key) ==
    LET rest == SubSeq(key, 3, Len(key))
        sep == CHOOSE i \in DOMAIN rest :
                   rest[i] = "__" /\ \A j \in DOMAIN rest : rest[j] = "__" => i <= j
    IN  [name |-> SubSeq(rest, 1, sep - 1), identifier |-> SubSeq(rest, sep + 1, Len(rest))]

\* The key without the prefix and its separator; the identifier is what
\* follows the last separator, the name what precedes it.
snapshot_id_of(key) ==
    LET rest == SubSeq(key, 3, Len(key))
        sep == CHOOSE i \in DOMAIN rest :
                   rest[i] = "__" /\ \A j \in DOMAIN rest : rest[j] = "__" => j <= i
    IN  [name |-> SubSeq(rest, 1, sep - 1), identifier |-> SubSeq(rest, sep + 1, Len(rest))]

snapshot_ids(variables) ==
    LET keys == [i \in DOMAIN variables |-> variables[i].key]
        stored == SelectSeq(keys, LAMBDA key : key[1] = SNAPSHOT_PAYLOAD_KEY_PREFIX)
    IN  [i \in DOMAIN stored |-> snapshot_id_of(stored[i])]

return_value(c, json) ==
    CASE c.op = "apply_plan" -> None
      [] c.op = "get_environment" -> environment_parse(json.value)
      [] c.op = "get_snapshot" -> snapshot_parse(json.value)
      [] c.op = "get_snapshot_ids" -> snapshot_ids(json.variables)
      [] c.op = "get_snapshot_identifiers_for_version" -> json.value
      [] c.op = "get_dag_run_state" -> json.state

raised(r) == [kind |-> "raised", error |-> r.kind, value |-> None]

returned(c, r) == [kind |-> "returned", error |-> "", value |-> return_value(c, r.json)]

\* A variant that sends the request once more when the first attempt failed.
on_response_retry(ses, r) ==
    IF failed(r) /\ ses.sent = 1
    THEN [ses EXCEPT !.requests = Append(@, request_of(ses.call)), !.sent = 2,
                     !.response = r]
    ELSE [ses EXCEPT !.pc = "idle", !.response = r,
                     !.outcome = IF failed(r) THEN raised(r) ELSE returned(ses.call, r)]

\* The answer arrives: a failure is raised to the caller, anything else returns.
on_response(ses, r) ==
    [ses EXCEPT !.pc = "idle", !.response = r,
                !.outcome = IF failed(r) THEN raised(r) ELSE returned(ses.call, r)]

Responses ==
    {[kind |-> "response", status |-> 200], [kind |-> "response", status |-> 404],
     [kind |-> "response", status |-> 500], [kind |-> "connection_error", status |-> 0]}

\* What the scheduler holds: environments, snapshots with and without
\* intervals, and snapshot keys of names with and without a separator.
Environments ==
    {TestEnvironment("test", snaps, prev) :
        snaps \in {<<>>, <<TestSnapshot("test_model")>>,
                   <<TestSnapshot("test_model"), TestSnapshot("other_model")>>},
        prev \in {None, "previous_plan_id"}}

Intervals ==
    {<<>>, << [start |-> "1664928000000", end |-> "1665014400000"] >>}

Snapshots ==
    {[TestSnapshot("test_model") EXCEPT !.intervals = iv, !.dev_intervals = dv] :
        iv \in Intervals, dv \in Intervals}

SnapshotIds ==
    {[name |-> n, identifier |-> i] :
        n \in {<<"test_name">>, <<"test_name_2">>, <<"sushi", "__", "items">>},
        i \in {<<"test_identifier">>, <<"test_identifier_2">>}}

MaxKeys == 2

KeyListings ==
    {ids \in UNION {[1..n -> SnapshotIds] : n \in 0..MaxKeys} :
        \A i, j \in DOMAIN ids : ids[i] = ids[j] => i = j}

\* The JSON of a good answer to a call.
Payloads(c) ==
    CASE c.op = "apply_plan" -> {[request_id |-> c.request_id]}
      [] c.op = "get_environment" -> {[value |-> environment_json(e)] : e \in Environments}
      [] c.op = "get_snapshot" -> {[value |-> snapshot_json(s)] : s \in Snapshots}
      [] c.op = "get_snapshot_ids" ->
           {[variables |-> [i \in DOMAIN ids |-> [key |-> snapshot_key(ids[i])]]] :
               ids \in KeyListings}
      [] c.op = "get_snapshot_identifiers_for_version" ->
           {[value |-> <<"test_identifier_1", "test_identifier_2">>]}
      [] c.op = "get_dag_run_state" -> {[state |-> "failed"], [state |-> "success"]}

\* The answers the session can give to a call.
Answers(c) ==
    {[kind |-> r.kind, status |-> r.status, json |-> EmptyMap] :
        r \in {x \in Responses : failed(x)}}
    \cup {[kind |-> r.kind, status |-> r.status, json |-> p] :
            r \in {x \in Responses : ~failed(x)}, p \in Payloads(c)}

\* The calls a caller makes.
PlanCalls ==
    {[NoCall EXCEPT !.op = "apply_plan", !.new_snapshots = snaps,
                    !.environment = TestEnvironment("test_env", snaps, prev),
                    !.request_id = rid, !.given = given] :
        snaps \in {<<TestSnapshot("test_model")>>,
                   <<TestSnapshot("test_model"), TestSnapshot("other_model")>>},
        prev \in {None, "previous_plan_id"},
        rid \in {"test_request_id", "r2"},
        given \in {EmptyMap, [is_dev |-> TRUE],
                   [no_gaps |-> TRUE, backfill_concurrent_tasks |-> 2]}}

QueryCalls ==
    {[NoCall EXCEPT !.op = "get_environment", !.name = "dev"],
     [NoCall EXCEPT !.op = "get_snapshot", !.name = "test_model", !.id = "identifier"],
     [NoCall EXCEPT !.op = "get_snapshot_ids"],
     [NoCall EXCEPT !.op = "get_snapshot_identifiers_for_version", !.name = "test_name",
                    !.id = "test_version"],
     [NoCall EXCEPT !.op = "get_dag_run_state", !.name = "test_dag_id",
                    !.id = "test_dag_run_id"]}

ClientFrame ==
    UNCHANGED <<fsvars, loadervars, result, hist, budget, threads, context, cli, target>>

Call(c) ==
    /\ session.pc = "idle" /\ session.calls < MaxCalls
    /\ session' = send(session, c)
    /\ ClientFrame

Respond(r) ==
    /\ session.pc = "waiting"
    /\ session' = on_response(session, r)
    /\ ClientFrame

InitClient ==
    /\ exists = Files
    /\ mtime = [f \in Files |-> 1]
    /\ content = [f \in Files |-> DefaultContent(f)]
    /\ fingerprint = "f1"
    /\ default_catalog = ""
    /\ path_mtimes = EmptyMap
    /\ macros_max_mtime = {}
    /\ config_mtimes = EmptyMap
    /\ registry = StandardMacros
    /\ cache = {}
    /\ result = NoResult
    /\ hist = NoHist
    /\ budget = [changes |-> 0, loads |-> 0]
    /\ threads = EmptyMap
    /\ target = NoTarget
    /\ session = NoSession
    /\ context = NoContext
    /\ cli = NoCli

NextClient ==
    \/ \E c \in PlanCalls \cup QueryCalls : Call(c)
    \/ session.pc = "waiting" /\ \E r \in Answers(session.call) : Respond(r)

SpecClient == InitClient /\ [][NextClient]_vars

(***************************************************************************)
(* SqlMeshLoader._variables: the variables a project's models are loaded   *)
(* with.  The context selects a gateway by name (its own, else the default *)
(* of its config; "" is None); the project's config holds variables of its *)
(* own and gateways by name, each with variables.  One step calls          *)
(* _variables on the project's config.                                     *)
(***************************************************************************)
GATEWAY == "gateway"

\* {**a, **b}: the keys of both, b's value where both have the key.
unpack(a, b) == [k \in DOMAIN a \cup DOMAIN b |-> IF k \in DOMAIN b THEN b[k] ELSE a[k]]

\* config.get_gateway(name) raises ConfigError when the config has no such gateway.
get_gateway(config, name) ==
    IF name \in DOMAIN config.gateways
    THEN [err |-> "", gateway |-> config.gateways[name]]
    ELSE [err |-> "ConfigError", gateway |-> None]

\* A variant in which the config's variables win over the gateway's.
_variables_config_last(ctx, config) ==
    LET gateway_name == IF ctx.gateway # "" THEN ctx.gateway ELSE ctx.default_gateway_name
        got == get_gateway(config, gateway_name)
    IN  [ctx EXCEPT
            !.log = IF got.err = "ConfigError"
                    THEN Append(@, [level |-> "warning", gateway |-> gateway_name,
                                    project |-> config.project])
                    ELSE @,
            !.variables =
                unpack(unpack(IF got.err = "" THEN got.gateway.variables ELSE EmptyMap,
                              config.variables),
                       [k \in {GATEWAY} |-> gateway_name]),
            !.done = TRUE]

_variables(ctx, config) ==
    LET gateway_name == IF ctx.gateway # "" THEN ctx.gateway ELSE ctx.default_gateway_name
        got == get_gateway(config, gateway_name)
    IN  [ctx EXCEPT
            !.log = IF got.err = "ConfigError"
                    THEN Append(@, [level |-> "warning", gateway |-> gateway_name,
                                    project |-> config.project])
                    ELSE @,
            !.variables =
                unpack(unpack(config.variables,
                              IF got.err = "" THEN got.gateway.variables ELSE EmptyMap),
                       [k \in {GATEWAY} |-> gateway_name]),
            !.done = TRUE]

VariableNames == {"x", "y", GATEWAY}

ConfigVariables == {[k \in K |-> "of_config"] : K \in SUBSET VariableNames}

GatewayVariables == {[k \in K |-> "of_gateway"] : K \in SUBSET {"x", GATEWAY}}

Gateways ==
    {EmptyMap}
    \cup {[n \in {"local"} |-> [variables |-> v]] : v \in GatewayVariables}
    \cup {[n \in {"local", "prod"} |-> [variables |-> IF n = "local" THEN v ELSE w]] :
            v \in GatewayVariables, w \in GatewayVariables}

InitVariables ==
    /\ exists = Files
    /\ mtime = [f \in Files |-> 1]
    /\ content = [f \in Files |-> DefaultContent(f)]
    /\ fingerprint = "f1"
    /\ default_catalog = ""
    /\ path_mtimes = EmptyMap
    /\ macros_max_mtime = {}
    /\ config_mtimes = EmptyMap
    /\ registry = StandardMacros
    /\ cache = {}
    /\ result = NoResult
    /\ hist = NoHist
    /\ budget = [changes |-> 0, loads |-> 0]
    /\ threads = EmptyMap
    /\ target = NoTarget
    /\ session = NoSession
    /\ cli = NoCli
    /\ \E selected \in {"", "local", "prod", "staging"}, default \in {"local", "staging"},
          gateways \in Gateways, variables \in ConfigVariables :
          context = [NoContext EXCEPT
                        !.gateway = selected, !.default_gateway_name = default,
                        !.config = [project |-> "example", gateways |-> gateways,
                                    variables |-> variables]]

\* variables = self._variables(config)
Variables ==
    /\ ~context.done
    /\ context' = _variables(context, context.config)
    /\ UNCHANGED <<fsvars, loadervars, result, hist, budget, threads, target, session, cli>>

SpecVariables == InitVariables /\ [][Variables]_vars

(***************************************************************************)
(* init_example_project (cli/example_project.py) on a root path.  Here a   *)
(* path is the sequence of its components below the root, the root <<>>;   *)
(* exists holds the folders and files present, content the payload of each *)
(* file.  The file-system record F of a call also holds the exception      *)
(* raised, if any, and the paths the call created or wrote (touched).      *)
(***************************************************************************)
MaxInits == 2

ProjectTemplates == {"airflow", "default"}

parent(path) == SubSeq(path, 1, Len(path) - 1)

is_dir(F, path) == path \in F.exists /\ path \notin DOMAIN F.content

\* Path.mkdir(): the folder must not exist, its parent must.
mkdir(F, path) ==
    IF F.raised # "" THEN F
    ELSE IF path \in F.exists THEN [F EXCEPT !.raised = "FileExistsError"]
    ELSE IF ~is_dir(F, parent(path)) THEN [F EXCEPT !.raised = "FileNotFoundError"]
    ELSE [F EXCEPT !.exists = @ \cup {path}, !.touched = @ \cup {path}]

\* Path.touch(): creates an empty file, or sets the times of a present one.
touch(F, path) ==
    IF F.raised # "" THEN F
    ELSE IF ~is_dir(F, parent(path)) THEN [F EXCEPT !.raised = "FileNotFoundError"]
    ELSE IF path \in F.exists THEN [F EXCEPT !.touched = @ \cup {path}]
    ELSE [F EXCEPT !.exists = @ \cup {path}, !.content = Put(@, path, ""),
                   !.touched = @ \cup {path}]

\* open(path, "w") and write: the file is created or replaced.
_write_file(F, path, payload) ==
    IF F.raised # "" THEN F
    ELSE IF ~is_dir(F, parent(path)) THEN [F EXCEPT !.raised = "FileNotFoundError"]
    ELSE IF is_dir(F, path) THEN [F EXCEPT !.raised = "IsADirectoryError"]
    ELSE [F EXCEPT !.exists = @ \cup {path}, !.content = Put(@, path, payload),
                   !.touched = @ \cup {path}]

create_folder(F, folder_path) == touch(mkdir(F, folder_path), folder_path \o <<".gitkeep">>)

_create_folders(F, target_folders) == FoldSeq(create_folder, F, target_folders)

_create_config(F, config_path, template) ==
    _write_file(F, config_path,
                IF template = "airflow" THEN "DEFAULT_AIRFLOW_CONFIG" ELSE "DEFAULT_CONFIG")

_create_audits(F, audits_path) ==
    _write_file(F, audits_path \o <<"example_full_model.sql">>, "EXAMPLE_AUDIT")

_create_models(F, models_path) ==
    _write_file(_write_file(F, models_path \o <<"example_full_model.sql">>,
                            "EXAMPLE_FULL_MODEL_DEF"),
                models_path \o <<"example_incremental_model.sql">>,
                "EXAMPLE_INCREMENTAL_MODEL_DEF")

_create_tests(F, tests_path) ==
    _write_file(F, tests_path \o <<"test_example_full_model.yaml">>, "EXAMPLE_TEST")

\* A variant that does not look for a config first.
init_example_project_unchecked(F, template) ==
    _create_tests(
        _create_models(
            _create_audits(
                _create_config(
                    _create_folders(F, << <<"audits">>, <<"macros">>, <<"models">>,
                                          <<"tests">> >>),
                    <<"config.py">>, template),
                <<"audits">>),
            <<"models">>),
        <<"tests">>)

init_example_project(F, template) ==
    IF <<"config.py">> \in F.exists THEN [F EXCEPT !.raised = "ClickException"]
    ELSE _create_tests(
             _create_models(
                 _create_audits(
                     _create_config(
                         _create_folders(F, << <<"audits">>, <<"macros">>, <<"models">>,
                                               <<"tests">> >>),
                         <<"config.py">>, template),
                     <<"audits">>),
                 <<"models">>),
             <<"tests">>)

\* What a root path may hold before the first call: nothing at all (the root
\* itself is missing), or the root with some of the project's folders, empty,
\* and possibly a config.py of the user's.
RootEntries == {<<"audits">>, <<"macros">>, <<"models">>, <<"tests">>, <<"config.py">>}

InitExample ==
    /\ mtime = [f \in Files |-> 1]
    /\ fingerprint = "f1"
    /\ default_catalog = ""
    /\ path_mtimes = EmptyMap
    /\ macros_max_mtime = {}
    /\ config_mtimes = EmptyMap
    /\ registry = StandardMacros
    /\ cache = {}
    /\ result = NoResult
    /\ hist = NoHist
    /\ budget = [changes |-> 0, loads |-> 0]
    /\ threads = EmptyMap
    /\ target = NoTarget
    /\ session = NoSession
    /\ context = NoContext
    /\ cli = NoCli
    /\ \/ exists = {} /\ content = EmptyMap
       \/ \E present \in SUBSET RootEntries :
             /\ exists = {<<>>} \cup present
             /\ content = [f \in present \cap {<<"config.py">>} |-> "a config of the user"]

\* init_example_project(path, template), the path being the root.
InitExampleProject(template) ==
    /\ cli.calls < MaxInits
    /\ \E F \in {init_example_project([exists |-> exists, content |-> content,
                                        raised |-> "", touched |-> {}], template)} :
          /\ exists' = F.exists
          /\ content' = F.content
          /\ cli' = [calls |-> cli.calls + 1, template |-> template, raised |-> F.raised,
                     touched |-> F.touched,
                     before |-> [exists |-> exists, content |-> content],
                     succeeded |-> cli.succeeded \/ (cli.calls > 0 /\ cli.raised = "")]
    /\ UNCHANGED <<mtime, fingerprint, default_catalog, loadervars, result, hist, budget,
                   threads, target, session, context>>

NextExample == \E template \in ProjectTemplates : InitExampleProject(template)

SpecExample == InitExample /\ [][NextExample]_vars

(***************************************************************************)
(* Two loads of independent scopes run _load_scripts in a thread each,     *)
(* against the one process-wide registry.  A thread holds its copy of the  *)
(* registry (std), the macro files it has still to read (todo) and the     *)
(* registry it returns (macros); a step is one statement on the registry.  *)
(***************************************************************************)
Threads == {"t1", "t2"}

ScopePy(t) == IF t = "t1" THEN MacroPyFiles ELSE OtherMacroPyFiles

ScopeSql(t) == IF t = "t1" THEN MacroSqlFiles ELSE OtherMacroSqlFiles

ConcFrame ==
    UNCHANGED <<fsvars, path_mtimes, macros_max_mtime, config_mtimes, cache, result, hist,
                budget, target, session, context, cli>>

\* standard_macros = macro.get_registry()
TSnapshot(t) ==
    /\ threads[t].pc = "start"
    /\ threads' = [threads EXCEPT ![t].pc = "scan", ![t].std = registry]
    /\ UNCHANGED registry /\ ConcFrame

\* The next macro file of the scope: a Python file is imported, a SQL file is
\* read and its macros are stored in the copy and registered.
TScript(t) ==
    /\ threads[t].pc = "scan" /\ threads[t].todo # <<>>
    /\ LET path == Head(threads[t].todo)
           sqlmacros == path \in Range(ScopeSql(t)) /\ content[path].begin
       IN  /\ registry' = IF path \in Range(ScopePy(t)) THEN py_macro_reg(registry, path)
                          ELSE IF sqlmacros THEN sql_macro_reg(registry, path)
                          ELSE registry
           /\ threads' = [threads EXCEPT
                            ![t].todo = Tail(@),
                            ![t].std = IF sqlmacros THEN sql_macro_std(@, path) ELSE @]
    /\ ConcFrame

\* macros = macro.get_registry()
TCollect(t) ==
    /\ threads[t].pc = "scan" /\ threads[t].todo = <<>>
    /\ threads' = [threads EXCEPT ![t].pc = "restore", ![t].macros = registry]
    /\ UNCHANGED registry /\ ConcFrame

\* macro.set_registry(standard_macros)
TRestore(t) ==
    /\ threads[t].pc = "restore"
    /\ registry' = threads[t].std
    /\ threads' = [threads EXCEPT ![t].pc = "done"]
    /\ ConcFrame

InitConc ==
    /\ exists = Files
    /\ mtime = [f \in Files |-> 1]
    /\ \E b1 \in BOOLEAN, b2 \in BOOLEAN :
          content = [f \in Files |->
                       CASE f = "macros/add.sql" -> [DefaultContent(f) EXCEPT !.begin = b1]
                         [] f = "other/macros/mul.sql" -> [DefaultContent(f) EXCEPT !.begin = b2]
                         [] OTHER -> DefaultContent(f)]
    /\ fingerprint = "f1"
    /\ default_catalog = ""
    /\ path_mtimes = EmptyMap
    /\ macros_max_mtime = {}
    /\ config_mtimes = EmptyMap
    /\ registry = StandardMacros
    /\ cache = {}
    /\ result = NoResult
    /\ hist = NoHist
    /\ budget = [changes |-> 0, loads |-> 0]
    /\ target = NoTarget
    /\ session = NoSession
    /\ context = NoContext
    /\ cli = NoCli
    /\ threads = [t \in Threads |->
                    [pc |-> "start", std |-> {}, macros |-> {},
                     todo |-> ScopePy(t) \o ScopeSql(t)]]

NextConc ==
    \E t \in Threads : TSnapshot(t) \/ TScript(t) \/ TCollect(t) \/ TRestore(t)

SpecConc == InitConc /\ [][NextConc]_vars

\* The macros the scripts of a thread's scope define.
OwnMacros(t) ==
    UNION {Range(content[f].names) : f \in Range(ScopePy(t))}
    \cup UNION {{normalize_macro_name(n) : n \in Range(content[f].names)} :
                   f \in {g \in Range(ScopeSql(t)) : content[g].begin}}

\* C7: under every interleaving of the two macro-loading phases, the macros
\* returned to a load are the standard macros and its own scope's script macros
\* only, and once both phases have finished the shared registry holds what it
\* held before either started.
NoCrossScopeLeak ==
    /\ \A t \in DOMAIN threads :
          threads[t].pc \in {"restore", "done"} =>
              threads[t].macros \subseteq StandardMacros \cup OwnMacros(t)
    /\ (DOMAIN threads # {} /\ \A t \in DOMAIN threads : threads[t].pc = "done")
          => registry = StandardMacros

(***************************************************************************)
(* The cache entry id as a function of what it reads: the loader's fields  *)
(* at the time a model file is looked up, and the context.  The fields are *)
(* drawn at the start; a step then changes exactly one of them, as between *)
(* two loads, and hist keeps the id computed before the change.            *)
(***************************************************************************)
KeyPath == "models/a.sql"

OptTimes == {{}} \cup {{t} : t \in Times}

\* Loader._config_mtimes for the times of the two config locations.
ConfigMtimes(loc, glo) ==
    [k \in {x \in CfgScopes : (x = ContextPath /\ loc # {}) \/ (x = SQLMESH_PATH /\ glo # {})}
        |-> IF k = ContextPath THEN MaxOf(loc) ELSE MaxOf(glo)]

EntryId ==
    _model_cache_entry_id(path_mtimes, macros_max_mtime, config_mtimes, fingerprint,
                          default_catalog, KeyPath)

InitKey ==
    /\ exists = Files
    /\ mtime = [f \in Files |-> 1]
    /\ content = [f \in Files |-> DefaultContent(f)]
    /\ \E t \in Times : path_mtimes = Put(EmptyMap, KeyPath, t)
    /\ macros_max_mtime \in OptTimes
    /\ \E loc \in OptTimes, glo \in OptTimes : config_mtimes = ConfigMtimes(loc, glo)
    /\ fingerprint \in Fingerprints
    /\ default_catalog \in Catalogs
    /\ registry = StandardMacros
    /\ cache = {}
    /\ result = NoResult
    /\ hist = <<>>
    /\ budget = [changes |-> 0, loads |-> 0]
    /\ threads = EmptyMap
    /\ target = NoTarget
    /\ session = NoSession
    /\ context = NoContext
    /\ cli = NoCli

Changed == hist' = <<EntryId>>

KeyFrame ==
    UNCHANGED <<exists, mtime, content, registry, cache, result, budget, threads, context, cli,
                target, session>>

ChangeModelMtime(t) ==
    /\ hist = <<>> /\ t # path_mtimes[KeyPath]
    /\ path_mtimes' = Put(EmptyMap, KeyPath, t)
    /\ Changed /\ KeyFrame
    /\ UNCHANGED <<macros_max_mtime, config_mtimes, fingerprint, default_catalog>>

ChangeMacrosMtime(m) ==
    /\ hist = <<>> /\ m # macros_max_mtime
    /\ macros_max_mtime' = m
    /\ Changed /\ KeyFrame
    /\ UNCHANGED <<path_mtimes, config_mtimes, fingerprint, default_catalog>>

ChangeLocalConfigMtime(c) ==
    /\ hist = <<>> /\ c # get(config_mtimes, ContextPath)
    /\ config_mtimes' = ConfigMtimes(c, get(config_mtimes, SQLMESH_PATH))
    /\ Changed /\ KeyFrame
    /\ UNCHANGED <<path_mtimes, macros_max_mtime, fingerprint, default_catalog>>

ChangeGlobalConfigMtime(c) ==
    /\ hist = <<>> /\ c # get(config_mtimes, SQLMESH_PATH)
    /\ config_mtimes' = ConfigMtimes(get(config_mtimes, ContextPath), c)
    /\ Changed /\ KeyFrame
    /\ UNCHANGED <<path_mtimes, macros_max_mtime, fingerprint, default_catalog>>

ChangeFingerprint(fp) ==
    /\ hist = <<>> /\ fp # fingerprint
    /\ fingerprint' = fp
    /\ Changed /\ KeyFrame
    /\ UNCHANGED <<path_mtimes, macros_max_mtime, config_mtimes, default_catalog>>

ChangeCatalog(c) ==
    /\ hist = <<>> /\ c # default_catalog
    /\ default_catalog' = c
    /\ Changed /\ KeyFrame
    /\ UNCHANGED <<path_mtimes, macros_max_mtime, config_mtimes, fingerprint>>

NextKey ==
    \/ \E t \in Times : ChangeModelMtime(t)
    \/ \E m \in OptTimes : ChangeMacrosMtime(m)
    \/ \E c \in OptTimes : ChangeLocalConfigMtime(c)
    \/ \E c \in OptTimes : ChangeGlobalConfigMtime(c)
    \/ \E fp \in Fingerprints : ChangeFingerprint(fp)
    \/ \E c \in Catalogs : ChangeCatalog(c)

SpecKey == InitKey /\ [][NextKey]_vars

\* C2: the invalidation key of a model file differs between two loads whenever
\* exactly one of the model file's modification time, the newest macro file's,
\* the newest config file's (project or global), the configuration fingerprint
\* or the default catalog differs.
EveryComponentInvalidates == hist # <<>> => EntryId # hist[1]

(***************************************************************************)
(* Properties of the cache.                                                *)
(***************************************************************************)
Entry(path, id) == {e \in cache : e.name = _cache_entry_name(path) /\ e.id = id}

\* C1, as stated: over the loads of a run, the loader function of a file runs at
\* most once for one invalidation key.
LoaderRunsAtMostOnce == hist.again = {}

\* C1, amended: a load that finds an entry under the file's entry name and the
\* computed key returns the cached model and does not invoke the loader function;
\* and once the loader function has returned a model for a file and a key, no
\* later load invokes it again for that file and key.
CacheHitSkipsLoader ==
    /\ \A p \in Range(result.hits) :
          /\ [path |-> p, id |-> result.ids[p]] \notin Pairs(result.inv)
          /\ Entry(p, result.ids[p]) # {}
          /\ \A m \in Range(result.models) :
                (m.path = p /\ m.kind \in {"sql", "seed"}) =>
                    \E e \in Entry(p, result.ids[p]) : m = [e.model EXCEPT !.path = p]
    /\ hist.okagain = {}

\* C1, its case: a completed load served models/a.sql from the cache, after an
\* earlier load had run its loader function.
CacheHitHappened ==
    /\ result.status = "ok"
    /\ "models/a.sql" \in Range(result.hits)
    /\ \E m \in Range(result.models) : m.path = "models/a.sql"
    /\ hist.okran # {}

\* The files the model loaded from a path is built from.
DepFiles(p) ==
    {p} \cup Range(ConfigFiles) \cup Range(GlobalConfigFiles) \cup Range(MacroPyFiles)
    \cup Range(MacroSqlFiles) \cup (IF content[p].seed THEN {SeedPath(p)} ELSE {})

\* C3: when a tracked file that a cached model depends on has changed, so that
\* reload_needed() was true before a load, that load computes a key for the model
\* that differs from the key of the load before, and so does not return the
\* cached model.
StaleSignalChangesKey ==
    \A p \in Range(result.hits) :
        (hist.sig \cap DepFiles(p) # {} /\ p \in DOMAIN hist.prevIds)
            => result.ids[p] # hist.prevIds[p]

(***************************************************************************)
(* Properties of reload_needed().                                          *)
(***************************************************************************)
\* C4: reload_needed() is true exactly when some tracked path is missing or has a
\* modification time greater than it had when the latest load tracked it; with
\* nothing tracked it is false.
ReloadNeededIffChanged ==
    /\ reload_needed <=>
          \E p \in DOMAIN path_mtimes : p \notin exists \/ mtime[p] > hist.mtimeAt[p]
    /\ (DOMAIN path_mtimes = {}) => ~reload_needed

\* C4, its case: every tracked path exists and one has a newer modification time.
ReloadNeededByMtime ==
    /\ reload_needed
    /\ \A p \in DOMAIN path_mtimes : p \in exists
    /\ \E p \in DOMAIN path_mtimes : mtime[p] < MaxTime /\ mtime[p] > hist.mtimeAt[p]

NoLoadStep == budget'.loads = budget.loads

AfterLoad == result.status = "ok" /\ mtime = hist.mtimeAt /\ exists = hist.existsAt

FalseAfterLoad == AfterLoad => ~reload_needed

\* A tracked file is deleted, or its modification time passes the recorded one.
TrackedFileChanges ==
    /\ NoLoadStep
    /\ \E f \in DOMAIN path_mtimes :
          \/ f \in exists /\ f \notin exists'
          \/ f \in exists' /\ mtime'[f] > path_mtimes[f]

\* A tracked file that was missing is back, or one that was newer is not any more.
TrackedFileRestored ==
    \E f \in DOMAIN path_mtimes :
        \/ f \notin exists /\ f \in exists'
        \/ f \in exists /\ mtime[f] > path_mtimes[f] /\ mtime'[f] <= path_mtimes[f]

\* C5, as stated: reload_needed() is false right after every completed load,
\* becomes true as soon as a tracked file is deleted or gets a newer modification
\* time, and then stays true until the next load.
ReloadNeededUntilNextLoad ==
    /\ []FalseAfterLoad
    /\ [][TrackedFileChanges => reload_needed']_vars
    /\ [][(reload_needed /\ NoLoadStep) => reload_needed']_vars

\* C5, amended: reload_needed() is false right after every completed load and
\* becomes true as soon as a tracked file is deleted or gets a modification time
\* greater than the recorded one; without a load it turns false again only when
\* a missing tracked file is back or a newer one has its time set back.
ReloadNeededWhileChanged ==
    /\ []FalseAfterLoad
    /\ [][TrackedFileChanges => reload_needed']_vars
    /\ [][(reload_needed /\ NoLoadStep /\ ~reload_needed') => TrackedFileRestored]_vars

\* C5, its case: a reload has completed after a tracked file was deleted.
ReloadedAfterDeletion ==
    /\ AfterLoad
    /\ \E f \in hist.sig : f \notin exists
    /\ ~reload_needed

(***************************************************************************)
(* Properties of the macro registry.                                       *)
(***************************************************************************)
\* The macros the project's scripts define, under the names they are called by.
ScriptMacros ==
    UNION {Range(content[f].names) : f \in Range(glob(MacroPyFiles))}
    \cup UNION {{normalize_macro_name(n) : n \in Range(content[f].names)} :
                   f \in {g \in Range(glob(MacroSqlFiles)) : content[g].begin}}

\* C6: after a load that completes, the process-wide registry holds exactly the
\* entries it held before the load started, and the registry returned to the
\* load holds the load's script macros.
RegistryRestored ==
    (result.status = "ok" /\ exists = hist.existsAt) =>
        /\ registry = hist.regBefore
        /\ ScriptMacros \subseteq result.macros

(***************************************************************************)
(* Properties of the dependency graph and of the models' names.            *)
(***************************************************************************)
RECURSIVE Closure(_, _)
Closure(dag, S) ==
    LET T == S \cup UNION {dag[n] : n \in S \cap DOMAIN dag}
    IN  IF T = S THEN S ELSE Closure(dag, T)

\* Some node reaches itself along the edges.
HasCycle(dag) == \E n \in DOMAIN dag : n \in Closure(dag, dag[n])

\* C8: no call of load returns a project whose dependency graph has a cycle,
\* whatever update_schemas is.
LoadedGraphAcyclic == result.status = "ok" => ~HasCycle(result.dag)

\* C9: when the models' dependencies form a cycle and load runs with schema
\* propagation, the graph error is raised before update_schema, the
\* optimized-query cache or validate_definition is called on any model.
CycleBeforePropagation ==
    (result.status # "none" /\ result.update_schemas /\ HasCycle(result.dag)) =>
        /\ result.err = "CycleError"
        /\ result.calls = <<>>

\* C9, its case: a load with schema propagation hit a cycle while a loaded model
\* outside the cycle was ready to visit.
CycleWithReadyModel ==
    /\ result.err = "CycleError"
    /\ result.update_schemas
    /\ \E n \in DOMAIN result.dag : result.dag[n] = {} /\ HasKey(result.models, n)

\* The names the SQL model files define, with their files.
SqlDefs == {f \in Range(glob(ModelSqlFiles)) : ~content[f].empty}

\* Two definitions of the project share a fully-qualified name: two SQL files, or
\* a SQL file and an external or a Python model.
DuplicateNames ==
    \/ \E f, g \in SqlDefs : f # g /\ content[f].fqn = content[g].fqn
    \/ \E f \in SqlDefs, x \in Range(glob(ExternalFiles)) \cup Range(glob(ModelPyFiles)) :
          ~content[x].empty /\ content[f].fqn \in Range(content[x].names)

\* C10: a load of a project in which two definitions share a name fails.
DuplicateNamesFail == (DuplicateNames /\ result.status # "none") => result.status = "error"

(***************************************************************************)
(* Properties of the audits and the metrics.                               *)
(***************************************************************************)
\* The names the files of a listing define, in the order they are stored.
RECURSIVE DefinedNames(_)
DefinedNames(listing) ==
    IF listing = <<>> THEN <<>>
    ELSE (IF content[Head(listing)].ok THEN content[Head(listing)].names ELSE <<>>)
         \o DefinedNames(Tail(listing))

Repeats(s) == \E i, j \in DOMAIN s : i # j /\ s[i] = s[j]

AuditNames == DefinedNames(glob(AuditFiles))

MetricNames == DefinedNames(SelectSeq(glob(MetricFiles), LAMBDA f : ~content[f].empty))

\* Every file parses and imports, or is a zero-byte file that is skipped.
NothingBroken == \A f \in exists : content[f].ok \/ content[f].empty

\* C11: when two audits, of one file or of two, share a name, or two metrics
\* do, the load fails and returns no project; with nothing else wrong it fails
\* on the duplicate key.
DuplicateAuditOrMetricFails ==
    ((Repeats(AuditNames) \/ Repeats(MetricNames)) /\ result.status # "none") =>
        /\ result.status = "error"
        /\ NothingBroken => result.err = "DuplicateKey"

\* C11, its case: two audit files define the same audit, nothing else is wrong,
\* and the load has failed on the duplicate key.
DuplicateAuditAcrossFiles ==
    /\ result.err = "DuplicateKey"
    /\ NothingBroken
    /\ ~Repeats(MetricNames)
    /\ content["audits/u.sql"].names = <<"u1">>
    /\ content["audits/v.sql"].names = <<"u1">>

(***************************************************************************)
(* Properties of the errors a load raises.                                 *)
(***************************************************************************)
\* The exceptions a parser failure shows as: the parser's own (SqlglotError,
\* of which TokenError is one) or the ConfigError the loader wraps it in.
ParserErrors == {"ConfigError", "SqlglotError", "TokenError"}

\* C12: a load that fails on a parser failure, in a model, metric, audit or SQL
\* macro file, fails with a configuration error whose message names the file
\* the parser failed on.
ParserFailuresNamePath ==
    (result.status = "error" /\ result.err \in ParserErrors) =>
        /\ result.err = "ConfigError"
        /\ result.errpath \in exists
        /\ ~content[result.errpath].ok

(***************************************************************************)
(* Properties of the returned graph and of schema propagation.             *)
(***************************************************************************)
ModelNames(models) == {models[i].fqn : i \in DOMAIN models}

\* C13: the graph a completed load returns has the loaded models' names and the
\* names they depend on as its nodes, and from each model's node the edges to
\* the names of its depends_on, loaded or not, and no other edge; nothing of a
\* model that only an earlier load had is left in it.
GraphOfLoadedModels ==
    result.status = "ok" =>
        /\ DOMAIN result.dag =
               ModelNames(result.models)
               \cup UNION {result.models[i].depends_on : i \in DOMAIN result.models}
        /\ \A i \in DOMAIN result.models :
               result.dag[result.models[i].fqn] = result.models[i].depends_on
        /\ \A i, j \in DOMAIN result.models :
               result.models[i].fqn = result.models[j].fqn => i = j
        /\ \A n \in DOMAIN result.dag \ ModelNames(result.models) : result.dag[n] = {}

\* C13, its case: a load has completed after the file of model B, which an
\* earlier load had loaded and cached, was removed, and another model still
\* depends on a name nothing defines.
GraphAfterModelRemoved ==
    /\ result.status = "ok"
    /\ "models/b.sql" \notin hist.existsAt
    /\ \E e \in cache : e.name = _cache_entry_name("models/b.sql")
    /\ \E n \in DOMAIN result.dag : n \notin ModelNames(result.models)
    /\ ModelNames(result.models) # {}

\* The call of op on the model named n comes before the i-th call of the load.
CalledBefore(op, n, i) ==
    \E j \in 1..(i - 1) : result.calls[j] = [op |-> op, fqn |-> n]

\* C14: when update_schema is called for a model, every model of the project it
\* depends on, directly or through other models, has had update_schema called,
\* and each of those whose columns_to_types is not None has been added to the
\* running schema; a node of the graph without a model gets no call and does
\* not fail the load.
TopologicalVisits ==
    (result.status # "none" /\ result.update_schemas) =>
        /\ \A i \in DOMAIN result.calls :
               result.calls[i].op = "update_schema" =>
                   \A d \in Closure(result.dag, result.dag[result.calls[i].fqn])
                             \cap ModelNames(result.models) :
                       /\ CalledBefore("update_schema", d, i)
                       /\ Get(result.models, d).cols => CalledBefore("add_table", d, i)
        /\ \A i \in DOMAIN result.calls : result.calls[i].fqn \in ModelNames(result.models)
        /\ ~HasCycle(result.dag) =>
               /\ result.status = "ok"
               /\ \A n \in ModelNames(result.models) :
                      CalledBefore("update_schema", n, Len(result.calls) + 1)

\* C14, its case: schema propagation has run over three models, one of which
\* another depends on while its columns_to_types is None, and over a node
\* that has no model.
VisitedWithUnknownUpstream ==
    /\ result.status = "ok" /\ result.update_schemas
    /\ Len(result.models) = 3
    /\ \E n \in DOMAIN result.dag : n \notin ModelNames(result.models)
    /\ \E i, j \in DOMAIN result.models :
          /\ ~result.models[i].cols
          /\ result.models[i].fqn \in result.models[j].depends_on
    /\ \E i \in DOMAIN result.models : result.models[i].cols

\* The first model of the chain of SELECT * FROM a model belongs to: the model
\* reached by following the upstreams that are loaded models.
RECURSIVE ChainHead(_, _)
ChainHead(models, n) ==
    LET m == Get(models, n)
    IN  IF m.star # "" /\ HasKey(models, m.star) THEN ChainHead(models, m.star) ELSE n

\* C15: after a load with schema propagation, every model of a chain of
\* SELECT * FROM the previous model has the columns of the chain's first model,
\* when that model lists a known column set; chains of two, three and four
\* models are loaded.
WildcardExpansion ==
    (result.status = "ok" /\ result.update_schemas) =>
        \A i \in DOMAIN result.models :
            LET head == Get(result.models, ChainHead(result.models, result.models[i].fqn))
            IN  (head.star = "" /\ head.cols) =>
                    /\ result.models[i].cols
                    /\ result.models[i].columns = head.columns

\* C15, its case: the chain A, B, C is loaded, A listing id, item_id and ds,
\* B selecting * from A and C selecting * from B, and C is resolved to A's columns.
ChainOfThreeResolved ==
    /\ result.status = "ok" /\ result.update_schemas
    /\ HasKey(result.models, "A") /\ HasKey(result.models, "B")
    /\ HasKey(result.models, "C")
    /\ Get(result.models, "A").star = ""
    /\ Get(result.models, "A").columns = ExampleColumns
    /\ Get(result.models, "B").star = "A"
    /\ Get(result.models, "C").star = "B"
    /\ Get(result.models, "C").columns = ExampleColumns

\* A model as it is before any schema is set: a SELECT * has no columns yet.
Unresolved(m) == IF m.star = "" THEN m ELSE [m EXCEPT !.cols = FALSE, !.columns = {}]

\* C16: a load with update_schemas=False calls update_schema, the optimized-query
\* cache and validate_definition on no model, and where the load of the same
\* files with update_schemas=True returns a project, it returns the same macros,
\* audits, metrics and graph and the same models, their schemas left unset.
NoPropagationWhenDisabled ==
    [][(budget'.loads < budget.loads /\ ~result'.update_schemas) =>
          LET T == load(Start, TRUE)
          IN  /\ result'.calls = <<>>
              /\ T.err = "" =>
                    /\ result'.status = "ok"
                    /\ result'.macros = T.macros
                    /\ result'.jinja = T.jinja
                    /\ result'.models = [i \in DOMAIN T.models |-> Unresolved(T.models[i])]
                    /\ result'.dag = T.dag
                    /\ result'.audits = T.audits
                    /\ result'.metrics = T.metrics]_vars

\* C16, its case: a load with update_schemas=False has returned a project with
\* macros, audits, metrics and three models, one of them a SELECT * whose
\* columns are not set.
LoadedWithoutSchemas ==
    /\ result.status = "ok" /\ ~result.update_schemas
    /\ Len(result.models) = 3
    /\ \E i \in DOMAIN result.models : result.models[i].star # "" /\ ~result.models[i].cols
    /\ result.macros # {} /\ result.audits # <<>> /\ result.metrics # <<>>
    /\ DOMAIN result.dag # {}

(***************************************************************************)
(* Properties of the directory scan.                                       *)
(***************************************************************************)
\* The zero-byte files among the model and metric files the latest load found.
ZeroByteFiles ==
    {f \in (Range(ModelSqlFiles) \cup Range(ModelPyFiles) \cup Range(MetricFiles))
              \cap hist.existsAt : content[f].empty}

\* C17: a zero-byte SQL or Python model file or metric file is not tracked, not
\* handed to the parser, yields no model and no metric and is named by no
\* error; a project with nothing else wrong loads.
ZeroByteFilesSkipped ==
    result.status # "none" =>
        /\ \A f \in ZeroByteFiles :
               /\ f \notin DOMAIN path_mtimes
               /\ \A i \in DOMAIN result.inv : result.inv[i].path # f
               /\ \A i \in DOMAIN result.models : result.models[i].path # f
               /\ result.errpath # f
        /\ (NothingBroken /\ ~Repeats(AuditNames) /\ ~Repeats(MetricNames)) =>
               /\ result.status = "ok"
               /\ [i \in DOMAIN result.metrics |-> result.metrics[i].fqn] = MetricNames

\* C17, its case: a load has completed on a project whose SQL model file, Python
\* model file and metric file are zero-byte files, next to a metric file that
\* defines a metric.
ZeroByteFilesLoaded ==
    /\ result.status = "ok"
    /\ {"models/a.sql", "models/p.py", "metrics/k.sql"} \subseteq ZeroByteFiles
    /\ result.metrics # <<>>
    /\ "metrics/j.sql" \in DOMAIN path_mtimes

(***************************************************************************)
(* Properties of the cache entry name.                                     *)
(***************************************************************************)
\* The components joined with "__", less the extension that ends the file name.
JoinedWithoutExtension(parts) ==
    LET joined == join("__", parts)
    IN  IF suffix(parts) = "" THEN joined ELSE SubSeq(joined, 1, Len(joined) - 1)

\* C18: the cache entry name of a file is its relative path's components joined
\* with "__", with the extension taken off the end and everything else kept,
\* also when a directory or the file name holds the extension's text elsewhere.
EntryNameStripsExtensionOnly ==
    target.done => target.name = JoinedWithoutExtension(target.parts)

(***************************************************************************)
(* Properties of the scheduler client.                                     *)
(***************************************************************************)
LastRequest == session.requests[Len(session.requests)]

\* C19: each operation of the client sends exactly one request per call; when
\* the request fails, by a connection failure or an answer outside 2xx, the call
\* raises that failure and the client sends nothing more.
OneRequestPerCall ==
    /\ Len(session.requests) = session.calls
    /\ session.calls > 0 =>
          /\ session.sent = 1
          /\ LastRequest = request_of(session.call)
    /\ (session.calls > 0 /\ session.pc = "idle") =>
          IF failed(session.response)
          THEN session.outcome.kind = "raised"
               /\ session.outcome.error = session.response.kind
          ELSE session.outcome.kind = "returned"

\* C19, its case: a call has failed on an answer outside 2xx after an earlier
\* call had failed to connect, and two requests have been sent in all.
FailedCallsNotRetried ==
    /\ session.calls = 2 /\ session.pc = "idle"
    /\ session.outcome.kind = "raised"
    /\ session.response.kind = "response" /\ session.response.status = 500
    /\ Len(session.requests) = 2
    /\ session.requests[1].method = "GET"

PlanKeys ==
    {"new_snapshots", "environment", "no_gaps", "skip_backfill", "notification_targets",
     "request_id", "restatements", "backfill_concurrent_tasks", "ddl_concurrent_tasks",
     "users", "is_dev"}

\* The call of test_apply_plan and the body the test expects of it.
TestApplyPlanCall ==
    [NoCall EXCEPT !.op = "apply_plan", !.new_snapshots = <<TestSnapshot("test_model")>>,
                   !.environment = TestEnvironment("test_env",
                                                   <<TestSnapshot("test_model")>>,
                                                   "previous_plan_id"),
                   !.request_id = "test_request_id"]

TestApplyPlanBody ==
    [new_snapshots |->
        << [created_ts |-> "1665014400000", ttl |-> "in 1 week",
            fingerprint |-> <<"fingerprint", "test_model">>,
            indirect_versions |-> EmptyMap, intervals |-> <<>>, dev_intervals |-> <<>>,
            model |-> [audits |-> <<>>, cron |-> "@daily", dialect |-> "",
                       expressions |-> << <<"@", "DEF", "(", "key", ",", "'value'", ")">> >>,
                       pre |-> <<>>, post |-> <<>>,
                       kind |-> [name |-> "incremental_by_time_range",
                                 time_column |-> [column |-> "ds"]],
                       name |-> "test_model", partitioned_by |-> <<"a">>,
                       query |-> <<"SELECT", "a", ",", "ds", "FROM", "tbl">>,
                       storage_format |-> "parquet", source_type |-> "sql"],
            audits |-> <<>>, name |-> "test_model", parents |-> <<>>,
            previous_versions |-> <<>>, physical_schema |-> "physical_schema",
            updated_ts |-> "1665014400000", version |-> <<"version", "test_model">>] >>,
     environment |->
        [name |-> "test_env",
         snapshots |-> << [fingerprint |-> <<"fingerprint", "test_model">>,
                           name |-> "test_model", physical_schema |-> "physical_schema",
                           previous_versions |-> <<>>,
                           version |-> <<"version", "test_model">>, parents |-> <<>>,
                           is_materialized |-> TRUE, is_embedded_kind |-> FALSE] >>,
         start_at |-> "2022-01-01", end_at |-> "2022-01-01", plan_id |-> "test_plan_id",
         previous_plan_id |-> "previous_plan_id"],
     no_gaps |-> FALSE, skip_backfill |-> FALSE, notification_targets |-> <<>>,
     request_id |-> "test_request_id", restatements |-> <<>>,
     backfill_concurrent_tasks |-> 1, ddl_concurrent_tasks |-> 1, users |-> <<>>,
     is_dev |-> FALSE]

\* C20: apply_plan sends one POST to {base_url}/sqlmesh/api/v1/plans whose body
\* has exactly the eleven keys of a plan; new_snapshots and environment are the
\* arguments serialized, request_id is the caller's, a parameter the caller gave
\* has the caller's value and every other its default (false, [] or 1); the
\* call of test_apply_plan sends the body that test expects.
ApplyPlanBody ==
    session.call.op = "apply_plan" =>
        LET c == session.call
            body == LastRequest.body
        IN  /\ session.sent = 1
            /\ LastRequest.method = "POST"
            /\ LastRequest.url = <<AIRFLOW_LOCAL_URL, "/sqlmesh/api/v1/plans">>
            /\ DOMAIN body = PlanKeys
            /\ body.new_snapshots =
                   [i \in DOMAIN c.new_snapshots |-> snapshot_json(c.new_snapshots[i])]
            /\ body.environment = environment_json(c.environment)
            /\ body.request_id = c.request_id
            /\ \A k \in DOMAIN PlanDefaults :
                   body[k] = IF k \in DOMAIN c.given THEN c.given[k] ELSE PlanDefaults[k]
            /\ c = TestApplyPlanCall => body = TestApplyPlanBody

\* C20, its case: the call of test_apply_plan, with no submission parameter
\* given, has been sent and has returned.
ApplyPlanSentWithDefaults ==
    /\ session.call = TestApplyPlanCall
    /\ session.pc = "idle" /\ session.outcome.kind = "returned"
    /\ LastRequest.body.is_dev = FALSE
    /\ LastRequest.body.backfill_concurrent_tasks = 1

(***************************************************************************)
(* Properties of the client's query operations.                            *)
(***************************************************************************)
\* The latest call was the operation op and has returned.
QueryReturned(op) ==
    session.pc = "idle" /\ session.call.op = op /\ session.outcome.kind = "returned"

\* C21: when the scheduler answers with the serialization of an environment
\* (of a snapshot), get_environment (get_snapshot) returns an object equal to
\* it field for field, also for an environment without a previous plan and a
\* snapshot without intervals.
FetchedEqualsSerialized ==
    /\ QueryReturned("get_environment") =>
          \A e \in Environments :
              session.response.json.value = environment_json(e) => session.outcome.value = e
    /\ QueryReturned("get_snapshot") =>
          \A sn \in Snapshots :
              session.response.json.value = snapshot_json(sn) => session.outcome.value = sn

\* get_environment has returned an environment of one snapshot that has no
\* previous plan, in the second call of the session.
EnvironmentWithoutPreviousPlanFetched ==
    /\ QueryReturned("get_environment")
    /\ session.response.json.value.previous_plan_id = null
    /\ session.outcome.value.previous_plan_id = None
    /\ Len(session.outcome.value.snapshots) = 1
    /\ session.calls = 2

SelectedGateway ==
    IF context.gateway # "" THEN context.gateway ELSE context.default_gateway_name

\* C23: _variables always returns.  For a gateway the project's config does not
\* have it logs one warning and returns the config's variables with the
\* gateway name under the gateway key; for a gateway the config has it logs
\* nothing, and a gateway's variable wins over the config's variable of the
\* same name; the gateway name under the gateway key wins over both.
GatewayVariablesOverride ==
    context.done =>
        LET config == context.config
            known == SelectedGateway \in DOMAIN config.gateways
            ofGateway == IF known THEN config.gateways[SelectedGateway].variables
                         ELSE EmptyMap
        IN  /\ DOMAIN context.variables =
                   DOMAIN config.variables \cup DOMAIN ofGateway \cup {GATEWAY}
            /\ \A k \in DOMAIN context.variables :
                   context.variables[k] =
                       IF k = GATEWAY THEN SelectedGateway
                       ELSE IF k \in DOMAIN ofGateway THEN ofGateway[k]
                       ELSE config.variables[k]
            /\ Len(context.log) = IF known THEN 0 ELSE 1
            /\ ~known => /\ context.log[1].level = "warning"
                          /\ context.log[1].gateway = SelectedGateway
                          /\ \A k \in DOMAIN context.variables \ {GATEWAY} :
                                 context.variables[k] = "of_config"

\* _variables has returned for a gateway the config does not have, although it
\* has others that set x: x is the config's, and the gateway key names the
\* unknown gateway, not the config's variable of that name.
UnknownGatewayWarned ==
    /\ context.done
    /\ context.gateway = "staging"
    /\ DOMAIN context.config.gateways = {"local", "prod"}
    /\ "x" \in DOMAIN context.config.gateways["local"].variables
    /\ DOMAIN context.config.variables = {"x", GATEWAY}
    /\ Len(context.log) = 1
    /\ context.variables = [k \in {"x", GATEWAY} |->
                                IF k = "x" THEN "of_config" ELSE "staging"]

(***************************************************************************)
(* Properties of schema errors.                                            *)
(***************************************************************************)
\* The i-th call of the latest load's schema propagation raises a SchemaError:
\* it sets the schema of a model that cannot take one, or adds a table whose
\* name has another number of parts than a table added before.
RaisesOfItsOwn(i) ==
    /\ result.calls[i].op = "update_schema"
    /\ Get(result.models, result.calls[i].fqn).schema_error # <<>>

RaisesForNesting(i) ==
    /\ result.calls[i].op = "add_table"
    /\ \E j \in 1..(i - 1) :
          /\ result.calls[j].op = "add_table"
          /\ Get(result.models, result.calls[j].fqn).nesting #
                 Get(result.models, result.calls[i].fqn).nesting

\* C24: a SchemaError raised while a model's schema is set ends the load with
\* that error, its message unchanged, and nothing is called on any model
\* after it; the nesting diagnostic is logged if and only if the error is a
\* nesting-level mismatch.
SchemaErrorIsFatal ==
    (result.status # "none" /\ result.update_schemas) =>
        LET n == Len(result.calls)
        IN  /\ \A i \in 1..n :
                   (RaisesOfItsOwn(i) \/ RaisesForNesting(i)) =>
                       /\ i = n
                       /\ result.status = "error" /\ result.err = "SchemaError"
                       /\ RaisesOfItsOwn(i) =>
                              result.errmsg =
                                  Get(result.models, result.calls[i].fqn).schema_error
                       /\ RaisesForNesting(i) =>
                              \E k \in DOMAIN result.errmsg :
                                  result.errmsg[k] = "nesting level:"
            /\ result.err = "SchemaError" =>
                   n > 0 /\ (RaisesOfItsOwn(n) \/ RaisesForNesting(n))
            /\ (NestingDiagnostic \in Range(result.log)) <=>
                   (result.err = "SchemaError" /\ RaisesForNesting(n))
            /\ Len(result.log) <= 1

\* A load has failed on B, whose name has more parts than A's: A's table was
\* added, B's was not, the diagnostic was logged and C, loaded as well and
\* selecting from B, was not visited.
NestingMismatchStopsPropagation ==
    /\ result.status = "error" /\ result.err = "SchemaError"
    /\ result.log = <<NestingDiagnostic>>
    /\ result.errmsg = NestingMessage("B", 2)
    /\ Len(result.models) = 3
    /\ content["models/c.sql"].star = "B"
    /\ [op |-> "add_table", fqn |-> "A"] \in Range(result.calls)
    /\ result.calls[Len(result.calls)] = [op |-> "add_table", fqn |-> "B"]
    /\ \A i \in DOMAIN result.calls : result.calls[i].fqn # "C"

(***************************************************************************)
(* Properties of a load that fails.                                        *)
(***************************************************************************)
\* C25: after a load that failed while the macros were loaded or in a later
\* phase (no earlier phase raises), the process-wide registry holds what it
\* held before the load.
FailedLoadRestoresRegistry ==
    result.status = "error" => registry = hist.regBefore

(***************************************************************************)
(* Properties of the cache entry names of two files.                       *)
(***************************************************************************)
\* C26: two distinct SQL model files of a project have distinct cache entry
\* names, and loading them into an empty cache takes no model from the cache:
\* each file gets the model it defines.
EntryNamesCollisionFree ==
    target.done =>
        /\ target.name # target.other_name
        /\ result.hits = <<>>
        /\ result.status = "ok"
        /\ \A i \in DOMAIN result.models :
               result.models[i].fqn = content[result.models[i].path].fqn

(***************************************************************************)
(* Properties of the validation of the models' definitions.                *)
(***************************************************************************)
\* The calls of validate_definition of the latest load, in their order.
Validations == SelectSeq(result.calls, LAMBDA c : c.op = "validate_definition")

\* No call of the schema propagation follows a call of validate_definition.
ValidationsComeLast ==
    \A i, j \in DOMAIN result.calls :
        (i < j /\ result.calls[i].op = "validate_definition")
            => result.calls[j].op = "validate_definition"

PropagationFailed == result.err \in {"CycleError", "SchemaError"}

\* C27 as stated: in a load with schema propagation, validate_definition is
\* called only after the propagation has finished for all models, and then
\* exactly once on every loaded model; after a failed propagation it is called
\* on no model.
ValidatedExactlyOnce ==
    (result.status # "none" /\ result.update_schemas) =>
        /\ ValidationsComeLast
        /\ PropagationFailed => Validations = <<>>
        /\ ~PropagationFailed =>
               \A i \in DOMAIN result.models :
                   Cardinality({k \in DOMAIN Validations :
                                   Validations[k].fqn = result.models[i].fqn}) = 1

\* C27, amended: validate_definition is called only after the propagation has
\* finished for all models, on the loaded models in their order and at most
\* once on each; on every loaded model when all definitions are valid,
\* otherwise up to the first model whose definition is not valid, where the
\* load fails; after a failed propagation it is called on no model.
ValidatedUntilInvalid ==
    (result.status # "none" /\ result.update_schemas) =>
        /\ ValidationsComeLast
        /\ PropagationFailed => Validations = <<>>
        /\ Len(Validations) <= Len(result.models)
        /\ \A k \in DOMAIN Validations : Validations[k].fqn = result.models[k].fqn
        /\ ~PropagationFailed =>
               \/ /\ result.status = "ok"
                  /\ Len(Validations) = Len(result.models)
                  /\ \A i \in DOMAIN result.models : result.models[i].valid
               \/ /\ result.status = "error" /\ result.err = "ConfigError"
                  /\ Validations # <<>>
                  /\ \A k \in DOMAIN Validations :
                         result.models[k].valid <=> k < Len(Validations)

\* A load with schema propagation has set the schemas of three models and then
\* validated the three, a SELECT * among them.
ThreeValidatedAfterPropagation ==
    /\ result.status = "ok" /\ result.update_schemas
    /\ Len(result.models) = 3 /\ Len(Validations) = 3
    /\ \E i \in DOMAIN result.models : result.models[i].star # ""
    /\ Len(result.calls) = 12
    /\ result.calls[9].op = "add_table" /\ result.calls[10].op = "validate_definition"

(***************************************************************************)
(* Properties of init_example_project.                                     *)
(***************************************************************************)
\* The latest call raised and created, wrote or touched nothing.
FailedUntouched ==
    /\ cli.raised # ""
    /\ cli.touched = {}
    /\ exists = cli.before.exists /\ content = cli.before.content

\* C28: a call on a root that holds config.py raises ClickException and
\* creates or modifies no folder and no file; so every call after a call that
\* succeeded on the root fails and leaves the project's files as they were.
ExistingConfigRefused ==
    cli.calls > 0 =>
        /\ <<"config.py">> \in cli.before.exists =>
               cli.raised = "ClickException" /\ FailedUntouched
        /\ cli.succeeded => FailedUntouched

\* The second call on a root, after a first that created the example project
\* from the airflow template, was refused: the config is still the first's.
SecondInitRefused ==
    /\ cli.calls = 2 /\ cli.succeeded
    /\ cli.raised = "ClickException" /\ cli.template = "default"
    /\ content[<<"config.py">>] = "DEFAULT_AIRFLOW_CONFIG"
    /\ <<"models", "example_incremental_model.sql">> \in exists
    /\ <<"macros", ".gitkeep">> \in exists

====
